---- MODULE Spec2Model ----
(***************************************************************************)
(* Model of BrowserManager (src/unnamed/part_000): the tab/context         *)
(* registry, the per-tab CDP session, screencast state and the recording   *)
(* lifecycle, together with the browser engine's asynchronous 'page' and   *)
(* 'close' events.                                                         *)
(*                                                                         *)
(* JavaScript runs one callback at a time: the code between two awaits is  *)
(* one atomic step.  Every await on engine I/O is a point where engine     *)
(* events and other pending continuations may run.  An await that needs no *)
(* I/O resumes in a microtask; the model keeps such points as states in    *)
(* which nothing but the resuming continuation is enabled (Micro).         *)
(***************************************************************************)
EXTENDS Integers, Sequences, FiniteSets, TLC

\* ---- bounds of the model ----
MaxPages == 3      \* engine pages ever created
MaxCtx == 2        \* engine contexts ever created
MaxSessions == 2   \* CDP sessions ever created
MaxExternal == 1    \* page opens/closes done by the browser's user or scripts
MaxBg == 1         \* fire-and-forget invalidations in flight at once
MaxHandlers == 2   \* screencast frame handlers referenced at once
MaxRemote == 2     \* create-session calls made to remote providers
MaxBrowsers == 3   \* browser handles ever obtained
MaxFrames == 2     \* screencast frames the browser emits

VARIABLES
  \* engine (playwright-core) side
  pageCtx,          \* pageCtx[p] = context of engine page p (pages are 1..Len)
  openPages,        \* engine pages that are not closed
  nCtx,             \* number of engine contexts created (contexts are 1..nCtx)
  closedCtxs,       \* engine contexts that were closed
  nExternal,        \* external opens/closes so far
  events,           \* FIFO of emitted, not yet delivered 'page'/'close' events
  ctxListeners,     \* contexts with a 'page' listener (setupContextTracking)
  pageListeners,    \* pages with a 'close' listener (setupPageTracking)
  sessPage,         \* sessPage[s] = page CDP session s was created for
  liveSessions,     \* sessions created and not yet detached
  sessListeners,    \* 'Page.screencastFrame' listeners: [s |-> session, h |-> handler]
  \* BrowserManager fields
  browser,          \* this.browser !== null
  isPersistentContext,
  contexts,
  pages,
  activePageIndex,
  cdpSession,       \* 0 = null
  screencastActive,
  frameCallback,    \* 0 = null
  screencastFrameHandler, \* 0 = null, else the handler closure
  recordingContext, \* 0 = null
  recordingPage,    \* 0 = null
  recordingTempDir, \* this.recordingTempDir !== ''
  scopedHeaderRoutes, \* the Map, in insertion order: <<[pat |-> pattern, h |-> handler]>>
  pageRoutes,       \* routes registered with page.route(): [p |-> page, pat |-> pattern, h |-> handler]
  \* the caller's operation in flight
  pc,               \* "idle", "done" or the await the operation is suspended at
  loc,              \* locals of the operation
  inv,              \* position inside an awaited invalidateCDPSession()
  pre,              \* state observed when the operation was called
  ret,              \* outcome of the operation that just completed
  \* invalidateCDPSession() calls started by the 'page' handler, not awaited
  bg,
  \* connection mode
  cdpEndpoint,      \* 0 = null, else the endpoint attached to
  remoteSession,    \* provider and id of the remote session recorded, NoRemote = none
  callers,          \* operations awaiting the operation in flight, innermost first
  \* browser handles and the remote provider
  handle,           \* the latest browser handle obtained (this.browser is it, or null):
                    \* its number, its isConnected(), nCtx when it was obtained
  provider,         \* the remote provider: create-session calls made, sessions
                    \* created (ids 1..created), ids a teardown request was sent for
  noUrl,            \* engine pages whose url() is empty
  refMap,           \* page the cached refs were taken from, 0 = {}
  \* screencast frames
  casting,          \* screencasts running in the browser: [s |-> session, cb |-> callback
                    \* passed to the startScreencast call that started it]
  nFrames,          \* frames emitted so far (frames are 1..nFrames)
  pending,          \* frame handler invocations awaiting their screencastFrameAck
  acks,             \* acks[f] = screencastFrameAck commands sent for frame f
  handed,           \* calls of this.frameCallback(frame), in order
  activeFrame       \* page of the frame selected with switchToFrame, 0 = null

engineVars == <<pageCtx, openPages, nCtx, closedCtxs, events, ctxListeners, pageListeners, nExternal>>
sessVars == <<cdpSession, screencastActive, sessPage, liveSessions>>
castVars == <<frameCallback, screencastFrameHandler, sessListeners>>
connVars == <<browser, isPersistentContext>>
regVars == <<contexts, pages, activePageIndex>>
recVars == <<recordingContext, recordingPage, recordingTempDir>>
hdrVars == <<scopedHeaderRoutes, pageRoutes>>
callVars == <<pc, loc, inv, pre, ret>>
modeVars == <<cdpEndpoint, remoteSession, callers, handle, provider, noUrl, refMap>>
auxVars == <<casting, nFrames, pending, acks, handed, activeFrame>>
vars == <<engineVars, sessVars, castVars, connVars, regVars, recVars, hdrVars, callVars, bg, modeVars, auxVars>>

\* ---- JavaScript array helpers (0-based indices) ----
At(s, i) == IF i >= 0 /\ i < Len(s) THEN s[i + 1] ELSE 0

Includes(s, x) == \E i \in 1..Len(s) : s[i] = x

IndexOf(s, x) ==
  IF Includes(s, x) THEN (CHOOSE i \in 1..Len(s) : s[i] = x /\ \A j \in 1..(i - 1) : s[j] # x) - 1
  ELSE -1

\* s.splice(i, 1) for i >= 0
Splice(s, i) ==
  IF i >= 0 /\ i < Len(s) THEN SubSeq(s, 1, i) \o SubSeq(s, i + 2, Len(s)) ELSE s

Max(a, b) == IF a >= b THEN a ELSE b
Min(a, b) == IF a <= b THEN a ELSE b

\* ---- records ----
Task(st, s, p) == [st |-> st, s |-> s, p |-> p]
NoTask == Task("none", 0, 0)
TaskSet == [st : {"begin", "sc_get", "sc_send", "detach", "done"},
            s : 0..(MaxSessions + 1), p : 0..(MaxPages + 1)]

\* an origin argument: its text is scheme followed by host
NoOrigin == [scheme |-> "", host |-> ""]
\* a route handler closure and the headers it captured
NoHandler == [id |-> 0, headers |-> 0]
NoRoute == [pat |-> <<>>, h |-> NoHandler]
\* this.<provider>SessionId / ApiKey, all null
NoRemote == [prov |-> "", id |-> 0]

\* browser.contexts() of the handle held
BrowserContexts == {c \in (handle.base + 1)..nCtx : c \notin closedCtxs}

isCdpConnectionAlive ==
  browser /\ \E c \in BrowserContexts : \E p \in openPages : pageCtx[p] = c

NoOptions ==
  [cdp |-> 0, autoConnect |-> FALSE, provider |-> "", env |-> "", extensions |-> FALSE,
   profile |-> FALSE, storageState |-> FALSE, engine |-> "chromium", allowFileAccess |-> FALSE]
NoLoc ==
  [index |-> 0, page |-> 0, session |-> 0, callback |-> 0, url |-> FALSE, mode |-> "",
   origin |-> NoOrigin, headers |-> 0, route |-> NoRoute, exists |-> FALSE, webm |-> FALSE,
   opts |-> NoOptions, endpoint |-> 0, remote |-> 0, err |-> "", steps |-> {}, failed |-> {},
   closed |-> {}, closedCtx |-> {}, before |-> {}]
NoPre ==
  [pages |-> <<>>, active |-> 0, cs |-> 0, sa |-> FALSE, ext |-> 0, contexts |-> <<>>,
   cast |-> <<0, 0, {}>>, rec |-> <<0, 0, FALSE>>, routes |-> <<<<>>, {}>>,
   nSess |-> 0, nPages |-> 0, nCtx |-> 0,
   mode |-> <<FALSE, FALSE, 0, NoRemote, 0, FALSE>>, engine |-> <<{}, {}, {}, 0>>]
NoRet == [op |-> "", err |-> "", a |-> 0, b |-> 0]
Snapshot ==
  [pages |-> pages, active |-> activePageIndex, cs |-> cdpSession, sa |-> screencastActive,
   ext |-> nExternal, contexts |-> contexts,
   cast |-> <<frameCallback, screencastFrameHandler, sessListeners>>,
   rec |-> <<recordingContext, recordingPage, recordingTempDir>>,
   routes |-> <<scopedHeaderRoutes, pageRoutes>>,
   nSess |-> Len(sessPage), nPages |-> Len(pageCtx), nCtx |-> nCtx,
   mode |-> <<browser, isPersistentContext, cdpEndpoint, remoteSession, handle.id, isCdpConnectionAlive>>,
   engine |-> <<openPages, closedCtxs, liveSessions, provider.calls>>]
Result(op, err, a, b) == [op |-> op, err |-> err, a |-> a, b |-> b]

isLaunched == browser \/ isPersistentContext

\* True where only a microtask continuation can run next
BgBegin == \E i \in 1..Len(bg) : bg[i].st = "begin"
Micro ==
  \/ pc \in {"done", "launch_connect", "close", "close_screencast", "close_session",
            "close_teardown", "close_pages", "close_contexts", "close_browser", "close_reset"}
  \/ inv.st \in {"begin", "done"} \/ BgBegin

Init ==
  /\ pageCtx = <<>> /\ openPages = {} /\ nCtx = 0 /\ closedCtxs = {} /\ events = <<>>
  /\ ctxListeners = {} /\ pageListeners = {} /\ nExternal = 0
  /\ sessPage = <<>> /\ liveSessions = {}
  /\ browser = FALSE /\ isPersistentContext = FALSE
  /\ contexts = <<>> /\ pages = <<>> /\ activePageIndex = 0
  /\ cdpSession = 0 /\ screencastActive = FALSE
  /\ frameCallback = 0 /\ screencastFrameHandler = 0 /\ sessListeners = {}
  /\ recordingContext = 0 /\ recordingPage = 0 /\ recordingTempDir = FALSE
  /\ scopedHeaderRoutes = <<>> /\ pageRoutes = {}
  /\ pc = "idle" /\ loc = NoLoc /\ inv = NoTask /\ pre = NoPre /\ ret = NoRet
  /\ bg = <<>>
  /\ cdpEndpoint = 0 /\ remoteSession = NoRemote /\ callers = <<>>
  /\ handle = [id |-> 0, connected |-> FALSE, base |-> 0]
  /\ provider = [calls |-> 0, created |-> 0, teardowns |-> {}, requests |-> {}] /\ noUrl = {} /\ refMap = 0
  /\ casting = {} /\ nFrames = 0 /\ pending = {} /\ acks = [f \in 1..MaxFrames |-> 0] /\ handed = <<>>
  /\ activeFrame = 0


\* ---- engine primitives ----
Ev(type, p) == [type |-> type, page |-> p]

NextPageId == Len(pageCtx) + 1

\* Context.newPage() / window.open(): the engine creates a page in context c
\* and emits 'page' on c when a listener is registered
CreatePage(c, heard) ==
  /\ Len(pageCtx) < MaxPages
  /\ pageCtx' = Append(pageCtx, c)
  /\ openPages' = openPages \cup {NextPageId}
  /\ events' = IF heard THEN Append(events, Ev("page", NextPageId)) ELSE events

\* Page.close(): closes the page and emits 'close' on it; closing a closed
\* page does nothing
ClosePage(p) ==
  /\ openPages' = openPages \ {p}
  /\ events' = IF p \in openPages /\ (p \in pageListeners \/ Includes(events, Ev("page", p)))
               THEN Append(events, Ev("close", p)) ELSE events

\* Browser.close(), or the end of the remote browser: every context of the
\* handle is closed with its pages and the connection is gone
BrowserGone ==
  /\ closedCtxs' = closedCtxs \cup BrowserContexts
  /\ openPages' = {p \in openPages : pageCtx[p] \notin BrowserContexts}
  /\ events' = events \o SelectSeq([p \in 1..Len(pageCtx) |-> Ev("close", p)],
                 LAMBDA e : e.page \in openPages \cap pageListeners /\ pageCtx[e.page] \in BrowserContexts)
  /\ handle' = [handle EXCEPT !.connected = FALSE]

\* context.newCDPSession(page) resolved
CreateSession(p) ==
  /\ Len(sessPage) < MaxSessions
  /\ sessPage' = Append(sessPage, p)
  /\ liveSessions' = liveSessions \cup {Len(sessPage) + 1}
  /\ cdpSession' = Len(sessPage) + 1

\* this.pages[this.activePageIndex] (0 = undefined)
ActivePage == At(pages, activePageIndex)

\* ---- things that happen in the browser without the manager ----
\* a script of an open page opens a new page in its context
ExternalOpen(c) ==
  /\ ~Micro
  /\ c \in (1..nCtx) \ closedCtxs
  /\ \E p \in openPages : pageCtx[p] = c
  /\ CreatePage(c, c \in ctxListeners)
  /\ nExternal < MaxExternal /\ nExternal' = nExternal + 1
  /\ UNCHANGED <<nCtx, closedCtxs, ctxListeners, pageListeners>>
  /\ UNCHANGED <<sessVars, connVars, regVars, recVars, callVars, bg>>
  /\ UNCHANGED castVars
  /\ UNCHANGED hdrVars
  /\ UNCHANGED modeVars
  /\ UNCHANGED auxVars

\* the user or a script closes a page
ExternalClose(p) ==
  /\ ~Micro
  /\ p \in openPages
  /\ ClosePage(p)
  /\ nExternal < MaxExternal /\ nExternal' = nExternal + 1
  /\ UNCHANGED <<pageCtx, nCtx, closedCtxs, ctxListeners, pageListeners>>
  /\ UNCHANGED <<sessVars, connVars, regVars, recVars, callVars, bg>>
  /\ UNCHANGED castVars
  /\ UNCHANGED hdrVars
  /\ UNCHANGED modeVars
  /\ UNCHANGED auxVars

\* the browser attached to or launched goes away (it is quit, or the
\* connection drops)
ExternalDisconnect ==
  /\ ~Micro
  /\ handle.connected
  /\ BrowserGone
  /\ nExternal < MaxExternal /\ nExternal' = nExternal + 1
  /\ UNCHANGED <<pageCtx, nCtx, ctxListeners, pageListeners>>
  /\ UNCHANGED <<sessVars, castVars, connVars, regVars, recVars, hdrVars, callVars, bg>>
  /\ UNCHANGED <<cdpEndpoint, remoteSession, callers, provider, noUrl, refMap>>
  /\ UNCHANGED auxVars

\* Playwright emits 'page' once per page.  A second delivery of the event for
\* an open page of a tracked context exercises the handler's includes() guard
PageEventRepeated(p) ==
  /\ ~Micro
  /\ p \in openPages /\ pageCtx[p] \in ctxListeners
  /\ ~Includes(events, Ev("page", p))
  /\ events' = Append(events, Ev("page", p))
  /\ nExternal < MaxExternal /\ nExternal' = nExternal + 1
  /\ UNCHANGED <<pageCtx, openPages, nCtx, closedCtxs, ctxListeners, pageListeners>>
  /\ UNCHANGED <<sessVars, connVars, regVars, recVars, callVars, bg>>
  /\ UNCHANGED castVars
  /\ UNCHANGED hdrVars
  /\ UNCHANGED modeVars
  /\ UNCHANGED auxVars

\* ---- setupContextTracking: context.on('page', ...) ----
PageHandlerPages_Unchecked(p) == Append(pages, p)

PageHandlerPages(p) == IF Includes(pages, p) THEN pages ELSE Append(pages, p)

PageOpened ==
  /\ ~Micro
  /\ events # <<>> /\ Head(events).type = "page"
  /\ LET p == Head(events).page
         pages2 == PageHandlerPages(p)
         newIndex == IndexOf(pages2, p)
         switch == newIndex # -1 /\ newIndex # activePageIndex
     IN /\ pages' = pages2
        /\ pageListeners' = IF Includes(pages, p) THEN pageListeners ELSE pageListeners \cup {p}
        /\ activePageIndex' = IF switch THEN newIndex ELSE activePageIndex
        /\ switch => Len(bg) < MaxBg
        /\ bg' = IF switch THEN Append(bg, Task("begin", 0, 0)) ELSE bg
  /\ events' = Tail(events)
  /\ UNCHANGED <<pageCtx, openPages, nCtx, closedCtxs, nExternal, ctxListeners, contexts>>
  /\ UNCHANGED <<sessVars, connVars, recVars, callVars>>
  /\ UNCHANGED castVars
  /\ UNCHANGED hdrVars
  /\ UNCHANGED modeVars
  /\ UNCHANGED auxVars

\* ---- setupPageTracking: page.on('close', ...) ----
CloseHandlerPages(p) == Splice(pages, IndexOf(pages, p))

CloseHandlerActive(p) ==
  IF IndexOf(pages, p) # -1 /\ activePageIndex >= Len(CloseHandlerPages(p))
  THEN Max(0, Len(CloseHandlerPages(p)) - 1)
  ELSE activePageIndex

PageClosed ==
  /\ ~Micro
  /\ events # <<>> /\ Head(events).type = "close"
  /\ LET p == Head(events).page
     IN IF p \in pageListeners
        THEN pages' = CloseHandlerPages(p) /\ activePageIndex' = CloseHandlerActive(p)
        ELSE UNCHANGED <<pages, activePageIndex>>
  /\ events' = Tail(events)
  /\ UNCHANGED <<pageCtx, openPages, nCtx, closedCtxs, nExternal, ctxListeners, pageListeners, contexts>>
  /\ UNCHANGED <<sessVars, connVars, recVars, callVars, bg>>
  /\ UNCHANGED castVars
  /\ UNCHANGED hdrVars
  /\ UNCHANGED modeVars
  /\ UNCHANGED auxVars

\* ---- invalidateCDPSession, one await at a time ----
\* t is the position reached, t2 the next one.  "sc_get" and "sc_send" are
\* the awaits of stopScreencast, "detach" the await of cdpSession.detach().
\* cdp.send() rejects once the session is detached or its page is closed
CanSend(sess) == sess \in liveSessions /\ sessPage[sess] \in openPages

\* frames whose screencastFrameAck is still outstanding on sess: its response
\* precedes the response of a command sent on sess afterwards
AcksOutstanding(sess) == {x.f : x \in {y \in pending : y.s = sess}}

\* the browser's screencasts once Page.stopScreencast was sent on sess
CastStopped(sess) == IF CanSend(sess) THEN {c \in casting : c.s # sess} ELSE casting

ClearScreencast_KeepCallback ==
  /\ screencastActive' = FALSE /\ UNCHANGED <<frameCallback, screencastFrameHandler>>

\* end of stopScreencast: the three fields are reset whatever happened before
ClearScreencast ==
  /\ screencastActive' = FALSE /\ frameCallback' = 0 /\ screencastFrameHandler' = 0

\* cdp.off('Page.screencastFrame', this.screencastFrameHandler), reached only
\* when cdp.send('Page.stopScreencast') resolved
RemoveHandler_Keep(sess) ==
  sessListeners' = sessListeners

RemoveHandler(sess) ==
  sessListeners' = IF CanSend(sess) /\ screencastFrameHandler # 0
                   THEN sessListeners \ {[s |-> sess, h |-> screencastFrameHandler]}
                   ELSE sessListeners

InvTaskStep(t, t2) ==
  \/ /\ t.st = "begin" /\ screencastActive /\ cdpSession # 0
     /\ t2 = Task("sc_send", cdpSession, 0)
     /\ UNCHANGED <<sessVars, castVars>>
  \/ /\ t.st = "begin" /\ screencastActive /\ cdpSession = 0 /\ ActivePage # 0
     /\ t2 = Task("sc_get", 0, ActivePage)
     /\ UNCHANGED <<sessVars, castVars>>
  \/ /\ t.st = "begin" /\ screencastActive /\ cdpSession = 0 /\ ActivePage = 0
     /\ ClearScreencast
     /\ t2 = Task("done", 0, 0)
     /\ UNCHANGED <<cdpSession, sessPage, liveSessions, sessListeners>>
  \/ /\ t.st = "begin" /\ ~screencastActive
     /\ t2 = IF cdpSession # 0 THEN Task("detach", cdpSession, 0) ELSE Task("done", 0, 0)
     /\ UNCHANGED <<sessVars, castVars>>
  \/ /\ t.st = "sc_get" /\ t.p \in openPages
     /\ CreateSession(t.p)
     /\ t2 = Task("sc_send", Len(sessPage) + 1, 0)
     /\ UNCHANGED <<screencastActive, castVars>>
  \/ /\ t.st = "sc_get" /\ t.p \notin openPages
     /\ ClearScreencast
     /\ t2 = IF cdpSession # 0 THEN Task("detach", cdpSession, 0) ELSE Task("done", 0, 0)
     /\ UNCHANGED <<cdpSession, sessPage, liveSessions, sessListeners>>
  \/ /\ t.st = "sc_send"
     /\ RemoveHandler(t.s)
     /\ ClearScreencast
     /\ t2 = IF cdpSession # 0 THEN Task("detach", cdpSession, 0) ELSE Task("done", 0, 0)
     /\ UNCHANGED <<cdpSession, sessPage, liveSessions>>
  \/ /\ t.st = "detach"
     /\ liveSessions' = liveSessions \ {t.s}
     /\ cdpSession' = 0
     /\ t2 = Task("done", 0, 0)
     /\ UNCHANGED <<screencastActive, sessPage, castVars>>

\* the invalidation started by the 'page' handler, never awaited
BgInvalidate(i) ==
  /\ i \in 1..Len(bg)
  /\ bg[i].st = "begin" \/ ~Micro
  /\ \E t2 \in TaskSet :
       /\ InvTaskStep(bg[i], t2)
       /\ casting' = IF bg[i].st = "sc_send" THEN CastStopped(bg[i].s) ELSE casting
       /\ bg' = IF t2.st = "done" THEN Splice(bg, i - 1) ELSE [bg EXCEPT ![i] = t2]
  /\ UNCHANGED <<engineVars, connVars, regVars, recVars, callVars>>
  /\ UNCHANGED hdrVars
  /\ UNCHANGED modeVars
  /\ UNCHANGED <<nFrames, pending, acks, handed, activeFrame>>

\* the invalidation awaited by the caller's operation
CallerInvalidate ==
  /\ ~BgBegin
  /\ inv.st \in {"begin", "sc_get", "sc_send", "detach"}
  /\ \E t2 \in TaskSet : InvTaskStep(inv, t2) /\ inv' = t2
  /\ casting' = IF inv.st = "sc_send" THEN CastStopped(inv.s) ELSE casting
  /\ UNCHANGED <<engineVars, connVars, regVars, recVars, pc, loc, pre, ret, bg>>
  /\ UNCHANGED hdrVars
  /\ UNCHANGED modeVars
  /\ UNCHANGED <<nFrames, pending, acks, handed, activeFrame>>

\* ---- call and return of the caller's operations ----
\* The caller's next command is itself an I/O event of the event loop: the
\* engine events emitted before it are handled first.  An event emitted later
\* is handled at one of the operation's awaits, or after it returned.
CanCall == pc = "idle" /\ ~Micro /\ events = <<>>
CanResume(label) == pc = label /\ ~BgBegin

\* an operation that completes in the step it was called in
Immediate(r) ==
  /\ pc' = "done" /\ ret' = r /\ pre' = Snapshot /\ loc' = NoLoc /\ inv' = NoTask

\* an operation that completes in the step it was called in, keeping its
\* arguments
ImmediateWith(r, l) ==
  /\ pc' = "done" /\ ret' = r /\ pre' = Snapshot /\ loc' = l /\ inv' = NoTask

Suspend(label, l) ==
  /\ pc' = label /\ loc' = l /\ pre' = Snapshot /\ ret' = NoRet /\ inv' = NoTask

\* an operation that starts with await this.invalidateCDPSession()
SuspendInvalidate(label, l) ==
  /\ pc' = label /\ loc' = l /\ pre' = Snapshot /\ ret' = NoRet /\ inv' = Task("begin", 0, 0)

Complete(r) ==
  /\ pc' = "done" /\ ret' = r /\ inv' = NoTask /\ UNCHANGED <<loc, pre>>

Return ==
  /\ pc = "done" /\ callers = <<>>
  /\ pc' = "idle" /\ loc' = NoLoc /\ pre' = NoPre /\ ret' = NoRet /\ inv' = NoTask
  /\ UNCHANGED <<engineVars, sessVars, connVars, regVars, recVars, bg>>
  /\ UNCHANGED castVars
  /\ UNCHANGED hdrVars
  /\ UNCHANGED modeVars
  /\ UNCHANGED auxVars


\* "Only add if not already tracked", then this.activePageIndex = length - 1
CreatedPages_Unchecked(p) == Append(pages, p)

CreatedPages(p) == IF Includes(pages, p) THEN pages ELSE Append(pages, p)

CreatedActive_Stale(p) == activePageIndex

CreatedActive(p) == Len(CreatedPages(p)) - 1

TrackCreated(p) ==
  /\ pages' = CreatedPages(p)
  /\ pageListeners' = IF Includes(pages, p) THEN pageListeners ELSE pageListeners \cup {p}
  /\ activePageIndex' = CreatedActive(p)

\* browser.newContext() resolved, then contexts.push and setupContextTracking
TrackNewContext ==
  /\ nCtx < MaxCtx
  /\ nCtx' = nCtx + 1
  /\ contexts' = Append(contexts, nCtx + 1)
  /\ ctxListeners' = ctxListeners \cup {nCtx + 1}

\* ---- getCDPSession ----
GetCDPSessionCall ==
  /\ CanCall
  /\ IF cdpSession # 0
     THEN Immediate(Result("getCDPSession", "", cdpSession, 0))
     ELSE IF ActivePage = 0
          THEN Immediate(Result("getCDPSession", "no page", 0, 0))
          ELSE Suspend("getCDPSession_new", [NoLoc EXCEPT !.page = ActivePage])
  /\ UNCHANGED <<engineVars, sessVars, connVars, regVars, recVars, bg>>
  /\ UNCHANGED castVars
  /\ UNCHANGED hdrVars
  /\ UNCHANGED modeVars
  /\ UNCHANGED auxVars

GetCDPSessionDone ==
  /\ CanResume("getCDPSession_new")
  /\ IF loc.page \in openPages
     THEN /\ CreateSession(loc.page)
          /\ Complete(Result("getCDPSession", "", Len(sessPage) + 1, 0))
          /\ UNCHANGED screencastActive
     ELSE /\ Complete(Result("getCDPSession", "target closed", 0, 0))
          /\ UNCHANGED sessVars
  /\ UNCHANGED <<engineVars, connVars, regVars, recVars, bg>>
  /\ UNCHANGED castVars
  /\ UNCHANGED hdrVars
  /\ UNCHANGED modeVars
  /\ UNCHANGED auxVars

\* ---- launch ----
Providers == {"browserbase", "browseruse", "kernel"}
\* the endpoint autoConnectViaCDP discovers (a ws:// or http://127.0.0.1 url)
AutoEndpoint == 3

\* LaunchCommand: cdp = cdpUrl ?? cdpPort (0 = neither), provider = the
\* provider option, env = process.env.AGENT_BROWSER_PROVIDER ("" = unset),
\* engine = options.browser ?? 'chromium'
LaunchOptions ==
  LET cdps == [NoOptions EXCEPT !.cdp = 1]
      ext == [NoOptions EXCEPT !.extensions = TRUE]
      prof == [NoOptions EXCEPT !.profile = TRUE]
  IN {NoOptions, ext, prof, cdps, [NoOptions EXCEPT !.cdp = 2],
      [NoOptions EXCEPT !.autoConnect = TRUE],
      [NoOptions EXCEPT !.provider = "browserbase"],
      [NoOptions EXCEPT !.provider = "browseruse"],
      [NoOptions EXCEPT !.provider = "kernel"],
      [NoOptions EXCEPT !.env = "kernel"],
      [NoOptions EXCEPT !.provider = "browserbase", !.env = "kernel"],
      [cdps EXCEPT !.extensions = TRUE], [cdps EXCEPT !.profile = TRUE],
      [prof EXCEPT !.storageState = TRUE], [ext EXCEPT !.storageState = TRUE],
      [ext EXCEPT !.engine = "firefox"],
      [NoOptions EXCEPT !.engine = "firefox", !.allowFileAccess = TRUE]}

\* the four checks at the head of launch; "" when it goes on
LaunchError(o) ==
  IF o.extensions /\ o.cdp # 0 THEN "extensions with cdp"
  ELSE IF o.profile /\ o.cdp # 0 THEN "profile with cdp"
  ELSE IF o.storageState /\ o.profile THEN "storage state with profile"
  ELSE IF o.storageState /\ o.extensions THEN "storage state with extensions"
  ELSE ""

\* the two checks made once no attach and no provider was selected
EngineError(o) ==
  IF o.extensions /\ o.engine # "chromium" THEN "extensions need chromium"
  ELSE IF o.allowFileAccess /\ o.engine # "chromium" THEN "file access needs chromium"
  ELSE ""

needsCdpReconnect(e) ==
  \/ ~(browser /\ handle.connected)
  \/ cdpEndpoint # e
  \/ ~isCdpConnectionAlive

needsRelaunch_Always(o) == TRUE

needsRelaunch(o) ==
  \/ o.cdp = 0 /\ ~o.autoConnect /\ cdpEndpoint # 0
  \/ o.cdp # 0 /\ needsCdpReconnect(o.cdp)
  \/ o.autoConnect /\ ~isCdpConnectionAlive

\* options.provider ?? process.env.AGENT_BROWSER_PROVIDER
SelectedProvider_EnvFirst(o) == IF o.env # "" THEN o.env ELSE o.provider

SelectedProvider(o) == IF o.provider # "" THEN o.provider ELSE o.env

\* launcher.launch() or connectOverCDP() resolved with a new handle
NewHandle ==
  /\ handle.id < MaxBrowsers
  /\ handle' = [id |-> handle.id + 1, connected |-> TRUE, base |-> nCtx]

LaunchCall(o) ==
  /\ CanCall
  /\ IF LaunchError(o) # ""
     THEN ImmediateWith(Result("launch", LaunchError(o), 0, 0), [NoLoc EXCEPT !.opts = o])
          /\ UNCHANGED callers
     ELSE IF isLaunched /\ ~needsRelaunch(o)
     THEN ImmediateWith(Result("launch", "", 0, 0), [NoLoc EXCEPT !.opts = o])
          /\ UNCHANGED callers
     ELSE IF isLaunched
     THEN Suspend("close", [NoLoc EXCEPT !.opts = o]) /\ callers' = <<"launch">>
     ELSE Suspend("launch_connect", [NoLoc EXCEPT !.opts = o]) /\ UNCHANGED callers
  /\ UNCHANGED <<engineVars, sessVars, connVars, regVars, recVars, bg>>
  /\ UNCHANGED castVars
  /\ UNCHANGED hdrVars
  /\ UNCHANGED <<cdpEndpoint, remoteSession, handle, provider, noUrl, refMap>>
  /\ UNCHANGED auxVars

\* launch() once it is known that nothing is launched (any more): pick the
\* connection strategy.  keys: the provider's API key variables are set
LaunchConnect(keys) ==
  /\ CanResume("launch_connect")
  /\ LET o == loc.opts
     IN IF o.cdp # 0
        THEN pc' = "attach" /\ loc' = [loc EXCEPT !.endpoint = o.cdp, !.mode = "cdp"]
             /\ UNCHANGED <<ret, provider>>
        ELSE IF o.autoConnect
        THEN pc' = "auto" /\ loc' = [loc EXCEPT !.mode = "auto"] /\ UNCHANGED <<ret, provider>>
        ELSE IF SelectedProvider(o) \in Providers
        THEN IF keys /\ provider.calls < MaxRemote
             THEN /\ pc' = "remote_create" /\ loc' = [loc EXCEPT !.mode = SelectedProvider(o)]
                  /\ provider' = [provider EXCEPT !.calls = @ + 1]
                  /\ UNCHANGED ret
             ELSE /\ pc' = "done" /\ ret' = Result("launch", "keys required", 0, 0)
                  /\ UNCHANGED <<loc, provider>>
        ELSE IF EngineError(o) # ""
        THEN pc' = "done" /\ ret' = Result("launch", EngineError(o), 0, 0)
             /\ UNCHANGED <<loc, provider>>
        ELSE /\ pc' = "launch_browser"
             /\ loc' = [loc EXCEPT !.mode = IF o.extensions \/ o.profile THEN "persistent" ELSE "local"]
             /\ UNCHANGED <<ret, provider>>
  /\ UNCHANGED <<engineVars, sessVars, connVars, regVars, recVars, inv, pre, bg>>
  /\ UNCHANGED <<castVars, hdrVars>>
  /\ UNCHANGED <<cdpEndpoint, remoteSession, callers, handle, noUrl, refMap>>
  /\ UNCHANGED auxVars

\* launcher.launch() settled; this.cdpEndpoint = null
LaunchBrowser(ok) ==
  /\ CanResume("launch_browser") /\ loc.mode = "local"
  /\ IF ok
     THEN /\ browser' = TRUE /\ NewHandle /\ cdpEndpoint' = 0
          /\ pc' = "launch_context" /\ UNCHANGED <<ret, inv>>
     ELSE /\ Complete(Result("launch", "launch failed", 0, 0))
          /\ UNCHANGED <<browser, handle, cdpEndpoint>>
  /\ UNCHANGED <<engineVars, sessVars, isPersistentContext, regVars, recVars, loc, pre, bg>>
  /\ UNCHANGED castVars
  /\ UNCHANGED hdrVars
  /\ UNCHANGED <<remoteSession, callers, provider, noUrl, refMap>>
  /\ UNCHANGED auxVars

\* launcher.launchPersistentContext() resolved: the context comes with its
\* first page, which was opened before any listener was registered
LaunchPersistent ==
  /\ CanResume("launch_browser") /\ loc.mode = "persistent"
  /\ isPersistentContext' = TRUE
  /\ TrackNewContext
  /\ CreatePage(nCtx + 1, FALSE)
  /\ TrackCreated(NextPageId)
  /\ Complete(Result("launch", "", 0, 0))
  /\ UNCHANGED <<closedCtxs, nExternal, sessVars, browser, recVars, bg>>
  /\ UNCHANGED castVars
  /\ UNCHANGED hdrVars
  /\ UNCHANGED modeVars
  /\ UNCHANGED auxVars

\* browser.newContext() settled. Resolved (ok): context.pages()[0] is
\* undefined, so context.newPage() is called. Rejected (e.g. an unusable
\* proxy option): launch() throws with this.browser already assigned
LaunchContext(ok) ==
  /\ CanResume("launch_context")
  /\ IF ok
     THEN /\ TrackNewContext
          /\ CreatePage(nCtx + 1, TRUE)
          /\ pc' = "launch_page" /\ loc' = [loc EXCEPT !.page = NextPageId]
          /\ UNCHANGED <<inv, pre, ret>>
     ELSE /\ Complete(Result("launch", "newContext failed", 0, 0))
          /\ UNCHANGED <<pageCtx, openPages, nCtx, events, ctxListeners, contexts>>
  /\ UNCHANGED <<closedCtxs, nExternal, pageListeners, sessVars, connVars, pages, activePageIndex>>
  /\ UNCHANGED <<recVars, bg>>
  /\ UNCHANGED castVars
  /\ UNCHANGED hdrVars
  /\ UNCHANGED modeVars
  /\ UNCHANGED auxVars

LaunchPage ==
  /\ CanResume("launch_page")
  /\ TrackCreated(loc.page)
  /\ Complete(Result("launch", "", 0, 0))
  /\ UNCHANGED <<pageCtx, openPages, nCtx, closedCtxs, nExternal, events, ctxListeners>>
  /\ UNCHANGED <<sessVars, connVars, contexts, recVars, bg>>
  /\ UNCHANGED castVars
  /\ UNCHANGED hdrVars
  /\ UNCHANGED modeVars
  /\ UNCHANGED auxVars

\* ---- connectViaCDP and autoConnectViaCDP ----
\* what the browser attached to holds: n contexts and, in the order the pages
\* were opened, the context of each page and whether its url() is non-empty
AttachShapes ==
  {[n |-> 0, pg |-> <<>>],
   [n |-> 1, pg |-> <<>>],
   [n |-> 1, pg |-> <<[c |-> 1, url |-> FALSE]>>],
   [n |-> 1, pg |-> <<[c |-> 1, url |-> TRUE]>>],
   [n |-> 2, pg |-> <<[c |-> 2, url |-> TRUE], [c |-> 1, url |-> FALSE], [c |-> 1, url |-> TRUE]>>]}

\* contexts.flatMap((context) => context.pages()).filter((page) => page.url())
\* over the contexts cs, given the engine's pages
RECURSIVE AllPages_Unfiltered(_, _, _, _)
AllPages_Unfiltered(cs, pcx, open, blank) ==
  IF cs = <<>> THEN <<>>
  ELSE SelectSeq([p \in 1..Len(pcx) |-> p],
                 LAMBDA p : pcx[p] = Head(cs) /\ p \in open)
       \o AllPages_Unfiltered(Tail(cs), pcx, open, blank)

RECURSIVE AllPages(_, _, _, _)
AllPages(cs, pcx, open, blank) ==
  IF cs = <<>> THEN <<>>
  ELSE SelectSeq([p \in 1..Len(pcx) |-> p],
                 LAMBDA p : pcx[p] = Head(cs) /\ p \in open /\ p \notin blank)
       \o AllPages(Tail(cs), pcx, open, blank)

\* the probes of autoConnectViaCDP settled: a debuggable browser was found
\* and connectViaCDP is called with its url, or none was
AutoConnect(found) ==
  /\ CanResume("auto")
  /\ IF found
     THEN pc' = "attach" /\ loc' = [loc EXCEPT !.endpoint = AutoEndpoint] /\ UNCHANGED <<ret, inv>>
     ELSE Complete(Result("launch", "no running browser found", 0, 0))
  /\ UNCHANGED <<engineVars, sessVars, castVars, connVars, regVars, recVars, hdrVars, pre, bg>>
  /\ UNCHANGED modeVars
  /\ UNCHANGED auxVars

\* chromium.connectOverCDP() settled, then the try block of connectViaCDP up
\* to its end or to the await in its catch block
AttachConnected(ok, sh) ==
  /\ CanResume("attach")
  /\ sh \in AttachShapes
  /\ IF ~ok
     THEN /\ Complete(Result("launch", "connect failed", 0, 0))
          /\ UNCHANGED <<pageCtx, openPages, nCtx, noUrl, handle, browser, cdpEndpoint>>
          /\ UNCHANGED <<regVars, ctxListeners, pageListeners, loc>>
     ELSE /\ nCtx + sh.n <= MaxCtx /\ Len(pageCtx) + Len(sh.pg) <= MaxPages
          /\ NewHandle
          /\ nCtx' = nCtx + sh.n
          /\ pageCtx' = pageCtx \o [i \in 1..Len(sh.pg) |-> nCtx + sh.pg[i].c]
          /\ openPages' = openPages \cup (Len(pageCtx) + 1)..(Len(pageCtx) + Len(sh.pg))
          /\ noUrl' = noUrl \cup {Len(pageCtx) + i : i \in {j \in 1..Len(sh.pg) : ~sh.pg[j].url}}
          /\ LET cs == [i \in 1..sh.n |-> nCtx + i]
                 allPages == AllPages(cs, pageCtx', openPages', noUrl')
             IN IF sh.n = 0 \/ allPages = <<>>
                THEN /\ pc' = "attach_close"
                     /\ loc' = [loc EXCEPT !.err = IF sh.n = 0 THEN "no context" ELSE "no page"]
                     /\ UNCHANGED <<browser, cdpEndpoint, regVars, ctxListeners, pageListeners>>
                     /\ UNCHANGED <<ret, inv>>
                ELSE /\ browser' = TRUE /\ cdpEndpoint' = loc.endpoint
                     /\ contexts' = contexts \o cs
                     /\ ctxListeners' = ctxListeners \cup {cs[i] : i \in 1..Len(cs)}
                     /\ pages' = pages \o allPages
                     /\ pageListeners' = pageListeners \cup {allPages[i] : i \in 1..Len(allPages)}
                     /\ activePageIndex' = 0
                     /\ Complete(Result("launch", "", 0, 0))
  /\ UNCHANGED <<closedCtxs, events, nExternal, sessVars, castVars, isPersistentContext, recVars, hdrVars>>
  /\ UNCHANGED <<pre, bg, remoteSession, callers, provider, refMap>>
  /\ UNCHANGED auxVars

\* catch block of connectViaCDP: browser.close() settled, the error is
\* thrown again
AttachClosed ==
  /\ CanResume("attach_close")
  /\ BrowserGone
  /\ Complete(Result("launch", loc.err, 0, 0))
  /\ UNCHANGED <<pageCtx, nCtx, ctxListeners, pageListeners, nExternal>>
  /\ UNCHANGED <<sessVars, castVars, connVars, regVars, recVars, hdrVars, bg>>
  /\ UNCHANGED <<cdpEndpoint, remoteSession, callers, provider, noUrl, refMap>>
  /\ UNCHANGED auxVars

\* ---- connectToBrowserbase, connectToBrowserUse, connectToKernel ----
\* the create-session request settled
RemoteCreate(ok) ==
  /\ CanResume("remote_create")
  /\ IF ok
     THEN /\ provider' = [provider EXCEPT !.created = @ + 1]
          /\ pc' = "remote_attach" /\ loc' = [loc EXCEPT !.remote = provider.created + 1]
          /\ UNCHANGED <<ret, inv>>
     ELSE /\ Complete(Result("launch", "create session failed", 0, 0))
          /\ UNCHANGED provider
  /\ UNCHANGED <<engineVars, sessVars, castVars, connVars, regVars, recVars, hdrVars, pre, bg>>
  /\ UNCHANGED <<cdpEndpoint, remoteSession, callers, handle, noUrl, refMap>>
  /\ UNCHANGED auxVars

\* the assignments at the end of an adapter's try block
RemoteCommit(c, p) ==
  /\ remoteSession' = [prov |-> loc.mode, id |-> loc.remote]
  /\ browser' = TRUE
  /\ contexts' = Append(contexts, c) /\ ctxListeners' = ctxListeners \cup {c}
  /\ pages' = Append(pages, p) /\ pageListeners' = pageListeners \cup {p}
  /\ activePageIndex' = 0
  /\ Complete(Result("launch", "", 0, 0))

\* catch block of an adapter: the close-session request is sent
RemoteCatch(err) ==
  /\ provider' = [provider EXCEPT !.teardowns = @ \cup {loc.remote},
                                 !.requests = @ \cup {[prov |-> loc.mode, id |-> loc.remote]}]
  /\ pc' = "remote_teardown" /\ loc' = [loc EXCEPT !.err = err]
  /\ UNCHANGED <<ret, inv, remoteSession, browser, regVars, ctxListeners, pageListeners>>

\* chromium.connectOverCDP(session url) settled.  has: what the remote
\* browser came up with ("page": a context with a page, "context": a context
\* without page, "none": no context)
RemoteAttach(ok, has) ==
  /\ CanResume("remote_attach")
  /\ IF ~ok
     THEN /\ Complete(Result("launch", "connect failed", 0, 0))
          /\ UNCHANGED <<pageCtx, openPages, events, nCtx, ctxListeners, pageListeners, handle, provider>>
          /\ UNCHANGED <<remoteSession, browser, regVars, loc>>
     ELSE /\ NewHandle
          /\ CASE has = "page" ->
                    /\ nCtx < MaxCtx /\ nCtx' = nCtx + 1
                    /\ CreatePage(nCtx + 1, FALSE)
                    /\ RemoteCommit(nCtx + 1, NextPageId)
                    /\ UNCHANGED <<provider, loc>>
               [] has = "context" ->
                    /\ nCtx < MaxCtx /\ nCtx' = nCtx + 1
                    /\ pc' = "remote_page"
                    /\ UNCHANGED <<pageCtx, openPages, events, ctxListeners, pageListeners, provider>>
                    /\ UNCHANGED <<remoteSession, browser, regVars, loc, ret, inv>>
               [] has = "none" ->
                    /\ IF loc.mode = "browserbase"
                       THEN RemoteCatch("no context")
                       ELSE /\ pc' = "remote_context"
                            /\ UNCHANGED <<provider, ctxListeners, pageListeners>>
                            /\ UNCHANGED <<remoteSession, browser, regVars, loc, ret, inv>>
                    /\ UNCHANGED <<pageCtx, openPages, events, nCtx>>
  /\ UNCHANGED <<closedCtxs, nExternal, sessVars, castVars, isPersistentContext, recVars, hdrVars>>
  /\ UNCHANGED <<pre, bg, cdpEndpoint, callers, noUrl, refMap>>
  /\ UNCHANGED auxVars

\* browser.newContext() or context.newPage() of an adapter settled
RemoteCreated(ok) ==
  /\ pc \in {"remote_context", "remote_page"} /\ ~BgBegin
  /\ IF ~ok
     THEN /\ RemoteCatch(IF pc = "remote_context" THEN "newContext failed" ELSE "newPage failed")
          /\ UNCHANGED <<pageCtx, openPages, events, nCtx>>
     ELSE IF pc = "remote_context"
     THEN /\ nCtx < MaxCtx /\ nCtx' = nCtx + 1
          /\ pc' = "remote_page"
          /\ UNCHANGED <<pageCtx, openPages, events, ctxListeners, pageListeners, provider>>
          /\ UNCHANGED <<remoteSession, browser, regVars, loc, ret, inv>>
     ELSE /\ CreatePage(nCtx, FALSE)
          /\ RemoteCommit(nCtx, NextPageId)
          /\ UNCHANGED <<nCtx, provider, loc>>
  /\ UNCHANGED <<closedCtxs, nExternal, sessVars, castVars, isPersistentContext, recVars, hdrVars>>
  /\ UNCHANGED <<pre, bg, cdpEndpoint, callers, handle, noUrl, refMap>>
  /\ UNCHANGED auxVars

\* the close-session request of the catch block settled (a rejection is
\* logged); the original error is thrown again
RemoteTeardown(ok) ==
  /\ CanResume("remote_teardown")
  /\ IF ok THEN BrowserGone ELSE UNCHANGED <<closedCtxs, openPages, events, handle>>
  /\ Complete(Result("launch", loc.err, 0, 0))
  /\ UNCHANGED <<pageCtx, nCtx, ctxListeners, pageListeners, nExternal>>
  /\ UNCHANGED <<sessVars, castVars, connVars, regVars, recVars, hdrVars, bg>>
  /\ UNCHANGED <<cdpEndpoint, remoteSession, callers, provider, noUrl, refMap>>
  /\ UNCHANGED auxVars

\* ---- newTab ----
NewTabCall ==
  /\ CanCall
  /\ IF ~browser \/ Len(contexts) = 0
     THEN Immediate(Result("newTab", "not launched", 0, 0))
     ELSE SuspendInvalidate("newTab_inv", NoLoc)
  /\ UNCHANGED <<engineVars, sessVars, connVars, regVars, recVars, bg>>
  /\ UNCHANGED castVars
  /\ UNCHANGED hdrVars
  /\ UNCHANGED modeVars
  /\ UNCHANGED auxVars

\* invalidation done: context = this.contexts[0]; context.newPage()
NewTabNewPage ==
  /\ CanResume("newTab_inv") /\ inv.st = "done"
  /\ CreatePage(contexts[1], contexts[1] \in ctxListeners)
  /\ pc' = "newTab_page" /\ loc' = [loc EXCEPT !.page = NextPageId] /\ inv' = NoTask
  /\ UNCHANGED <<nCtx, closedCtxs, nExternal, ctxListeners, pageListeners>>
  /\ UNCHANGED <<sessVars, connVars, regVars, recVars, pre, ret, bg>>
  /\ UNCHANGED castVars
  /\ UNCHANGED hdrVars
  /\ UNCHANGED modeVars
  /\ UNCHANGED auxVars

NewTabDone ==
  /\ CanResume("newTab_page")
  /\ TrackCreated(loc.page)
  /\ Complete(Result("newTab", "", CreatedActive(loc.page), Len(CreatedPages(loc.page))))
  /\ UNCHANGED <<pageCtx, openPages, nCtx, closedCtxs, nExternal, events, ctxListeners>>
  /\ UNCHANGED <<sessVars, connVars, contexts, recVars, bg>>
  /\ UNCHANGED castVars
  /\ UNCHANGED hdrVars
  /\ UNCHANGED modeVars
  /\ UNCHANGED auxVars

\* ---- newWindow ----
NewWindowCall ==
  /\ CanCall
  /\ IF ~browser
     THEN Immediate(Result("newWindow", "not launched", 0, 0))
     ELSE Suspend("newWindow_context", NoLoc)
  /\ UNCHANGED <<engineVars, sessVars, connVars, regVars, recVars, bg>>
  /\ UNCHANGED castVars
  /\ UNCHANGED hdrVars
  /\ UNCHANGED modeVars
  /\ UNCHANGED auxVars

NewWindowContext ==
  /\ CanResume("newWindow_context")
  /\ TrackNewContext
  /\ CreatePage(nCtx + 1, TRUE)
  /\ pc' = "newWindow_page" /\ loc' = [loc EXCEPT !.page = NextPageId]
  /\ UNCHANGED <<closedCtxs, nExternal, pageListeners, sessVars, connVars, pages, activePageIndex>>
  /\ UNCHANGED <<recVars, inv, pre, ret, bg>>
  /\ UNCHANGED castVars
  /\ UNCHANGED hdrVars
  /\ UNCHANGED modeVars
  /\ UNCHANGED auxVars

NewWindowDone ==
  /\ CanResume("newWindow_page")
  /\ TrackCreated(loc.page)
  /\ Complete(Result("newWindow", "", CreatedActive(loc.page), Len(CreatedPages(loc.page))))
  /\ UNCHANGED <<pageCtx, openPages, nCtx, closedCtxs, nExternal, events, ctxListeners>>
  /\ UNCHANGED <<sessVars, connVars, contexts, recVars, bg>>
  /\ UNCHANGED castVars
  /\ UNCHANGED hdrVars
  /\ UNCHANGED modeVars
  /\ UNCHANGED auxVars

\* ---- switchTo ----
Indices == (0 - 1)..MaxPages

SwitchToInvalidates_Always(index) == TRUE

\* if (index !== this.activePageIndex) await this.invalidateCDPSession()
SwitchToInvalidates(index) == index # activePageIndex

SwitchToCall(index) ==
  /\ CanCall
  /\ IF index < 0 \/ index >= Len(pages)
     THEN Immediate(Result("switchTo", "invalid index", index, 0))
     ELSE IF SwitchToInvalidates(index)
          THEN SuspendInvalidate("switchTo_inv", [NoLoc EXCEPT !.index = index])
          ELSE Immediate(Result("switchTo", "", index, 0))
  /\ activePageIndex' =
       IF index >= 0 /\ index < Len(pages) /\ ~SwitchToInvalidates(index) THEN index
       ELSE activePageIndex
  /\ UNCHANGED <<engineVars, sessVars, connVars, contexts, pages, recVars, bg>>
  /\ UNCHANGED castVars
  /\ UNCHANGED hdrVars
  /\ UNCHANGED modeVars
  /\ UNCHANGED auxVars

\* this.activePageIndex = index; page = this.pages[index]; page.url()
SwitchToDone ==
  /\ CanResume("switchTo_inv") /\ inv.st = "done"
  /\ activePageIndex' = loc.index
  /\ IF At(pages, loc.index) = 0
     THEN Complete(Result("switchTo", "TypeError", loc.index, 0))
     ELSE Complete(Result("switchTo", "", loc.index, 0))
  /\ UNCHANGED <<engineVars, sessVars, connVars, contexts, pages, recVars, bg>>
  /\ UNCHANGED castVars
  /\ UNCHANGED hdrVars
  /\ UNCHANGED modeVars
  /\ UNCHANGED auxVars

\* ---- closeTab ----
\* page = this.pages[targetIndex]; page.close()
CloseTabClose(target) ==
  IF At(pages, target) = 0
  THEN /\ pc' = "done" /\ ret' = Result("closeTab", "TypeError", target, 0)
       /\ UNCHANGED <<openPages, events>>
  ELSE /\ pc' = "closeTab_close" /\ ret' = NoRet
       /\ ClosePage(At(pages, target))

IsLastTab_Never == FALSE

\* if (this.pages.length === 1) throw 'Cannot close the last tab...'
IsLastTab == Len(pages) = 1

CloseTabCall(useActive, index) ==
  /\ CanCall
  /\ LET targetIndex == IF useActive THEN activePageIndex ELSE index
     IN IF targetIndex < 0 \/ targetIndex >= Len(pages)
        THEN Immediate(Result("closeTab", "invalid index", targetIndex, 0)) /\ UNCHANGED <<openPages, events>>
        ELSE IF IsLastTab
             THEN Immediate(Result("closeTab", "last tab", targetIndex, 0)) /\ UNCHANGED <<openPages, events>>
             ELSE IF targetIndex = activePageIndex
                  THEN /\ SuspendInvalidate("closeTab_inv", [NoLoc EXCEPT !.index = targetIndex])
                       /\ UNCHANGED <<openPages, events>>
                  ELSE /\ CloseTabClose(targetIndex)
                       /\ loc' = [NoLoc EXCEPT !.index = targetIndex]
                       /\ pre' = Snapshot /\ inv' = NoTask
  /\ UNCHANGED <<pageCtx, nCtx, closedCtxs, nExternal, ctxListeners, pageListeners>>
  /\ UNCHANGED <<sessVars, connVars, regVars, recVars, bg>>
  /\ UNCHANGED castVars
  /\ UNCHANGED hdrVars
  /\ UNCHANGED modeVars
  /\ UNCHANGED auxVars

CloseTabInvalidated ==
  /\ CanResume("closeTab_inv") /\ inv.st = "done"
  /\ CloseTabClose(loc.index)
  /\ inv' = NoTask
  /\ UNCHANGED <<pageCtx, nCtx, closedCtxs, nExternal, ctxListeners, pageListeners>>
  /\ UNCHANGED <<sessVars, connVars, regVars, recVars, loc, pre, bg>>
  /\ UNCHANGED castVars
  /\ UNCHANGED hdrVars
  /\ UNCHANGED modeVars
  /\ UNCHANGED auxVars

CloseTabActive(target) ==
  IF activePageIndex >= Len(Splice(pages, target))
  THEN Len(Splice(pages, target)) - 1
  ELSE IF activePageIndex > target THEN activePageIndex - 1 ELSE activePageIndex

\* page.close() resolved: this.pages.splice(targetIndex, 1), adjust the index
CloseTabDone ==
  /\ CanResume("closeTab_close")
  /\ pages' = Splice(pages, loc.index)
  /\ activePageIndex' = CloseTabActive(loc.index)
  /\ Complete(Result("closeTab", "", loc.index, Len(Splice(pages, loc.index))))
  /\ UNCHANGED <<engineVars, sessVars, connVars, contexts, recVars, bg>>
  /\ UNCHANGED castVars
  /\ UNCHANGED hdrVars
  /\ UNCHANGED modeVars
  /\ UNCHANGED auxVars

\* ---- ensurePage ----
EnsurePageReturns_NoPageCheck == ~isLaunched \/ (Len(contexts) = 0 /\ ~browser)

\* if (this.pages.length > 0) return; if (!this.browser && !this.isPersistentContext)
\* return; no context and no browser: return
EnsurePageReturns == Len(pages) > 0 \/ ~isLaunched \/ (Len(contexts) = 0 /\ ~browser)

EnsurePageCall ==
  /\ CanCall
  /\ IF EnsurePageReturns
     THEN /\ Immediate(Result("ensurePage", "", 0, 0))
          /\ UNCHANGED <<pageCtx, openPages, events>>
     ELSE IF Len(contexts) > 0
          THEN /\ CreatePage(contexts[Len(contexts)], contexts[Len(contexts)] \in ctxListeners)
               /\ Suspend("ensurePage_page", [NoLoc EXCEPT !.page = NextPageId])
          ELSE /\ Suspend("ensurePage_context", NoLoc)
               /\ UNCHANGED <<pageCtx, openPages, events>>
  /\ UNCHANGED <<nCtx, closedCtxs, nExternal, ctxListeners, pageListeners>>
  /\ UNCHANGED <<sessVars, connVars, regVars, recVars, bg>>
  /\ UNCHANGED castVars
  /\ UNCHANGED hdrVars
  /\ UNCHANGED modeVars
  /\ UNCHANGED auxVars

EnsurePageContext ==
  /\ CanResume("ensurePage_context")
  /\ TrackNewContext
  /\ CreatePage(nCtx + 1, TRUE)
  /\ pc' = "ensurePage_page" /\ loc' = [loc EXCEPT !.page = NextPageId]
  /\ UNCHANGED <<closedCtxs, nExternal, pageListeners, sessVars, connVars, pages, activePageIndex>>
  /\ UNCHANGED <<recVars, inv, pre, ret, bg>>
  /\ UNCHANGED castVars
  /\ UNCHANGED hdrVars
  /\ UNCHANGED modeVars
  /\ UNCHANGED auxVars

EnsurePageDone ==
  /\ CanResume("ensurePage_page")
  /\ TrackCreated(loc.page)
  /\ Complete(Result("ensurePage", "", 0, 0))
  /\ UNCHANGED <<pageCtx, openPages, nCtx, closedCtxs, nExternal, events, ctxListeners>>
  /\ UNCHANGED <<sessVars, connVars, contexts, recVars, bg>>
  /\ UNCHANGED castVars
  /\ UNCHANGED hdrVars
  /\ UNCHANGED modeVars
  /\ UNCHANGED auxVars


\* ---- screencast ----
\* the frame callbacks a caller may pass
Callbacks == {1, 2}

\* a new closure is any handler that nothing refers to any more
FreshHandlers ==
  (1..MaxHandlers) \ ({l.h : l \in sessListeners} \cup {screencastFrameHandler})

FreshHandler == CHOOSE h \in FreshHandlers : \A g \in FreshHandlers : h <= g

\* this.frameCallback = callback; this.screencastActive = true; the frame
\* handler closure is created and registered with cdp.on()
RegisterHandler(sess, cb) ==
  /\ FreshHandlers # {}
  /\ frameCallback' = cb /\ screencastActive' = TRUE
  /\ screencastFrameHandler' = FreshHandler
  /\ sessListeners' = sessListeners \cup {[s |-> sess, h |-> FreshHandler]}

StartScreencastRejects_Never == FALSE

\* if (this.screencastActive) throw new Error('Screencast already active')
StartScreencastRejects == screencastActive

StartScreencastCall(cb) ==
  /\ CanCall
  /\ IF StartScreencastRejects
     THEN Immediate(Result("startScreencast", "already active", cb, 0))
          /\ UNCHANGED <<screencastActive, castVars>>
     ELSE IF cdpSession # 0
          THEN /\ Suspend("startScreencast_send",
                          [NoLoc EXCEPT !.session = cdpSession, !.callback = cb,
                                        !.before = AcksOutstanding(cdpSession)])
               /\ RegisterHandler(cdpSession, cb)
          ELSE IF ActivePage = 0
               THEN Immediate(Result("startScreencast", "no page", 0, 0))
                    /\ UNCHANGED <<screencastActive, castVars>>
               ELSE /\ Suspend("startScreencast_get", [NoLoc EXCEPT !.page = ActivePage, !.callback = cb])
                    /\ UNCHANGED <<screencastActive, castVars>>
  /\ UNCHANGED <<engineVars, cdpSession, sessPage, liveSessions, connVars, regVars, recVars, bg>>
  /\ UNCHANGED hdrVars
  /\ UNCHANGED modeVars
  /\ UNCHANGED auxVars

StartScreencastSession ==
  /\ CanResume("startScreencast_get")
  /\ IF loc.page \in openPages
     THEN /\ CreateSession(loc.page)
          /\ RegisterHandler(Len(sessPage) + 1, loc.callback)
          /\ pc' = "startScreencast_send" /\ loc' = [loc EXCEPT !.session = Len(sessPage) + 1]
          /\ UNCHANGED <<inv, pre, ret>>
     ELSE /\ Complete(Result("startScreencast", "target closed", 0, 0))
          /\ UNCHANGED <<sessVars, castVars>>
  /\ UNCHANGED <<engineVars, connVars, regVars, recVars, bg>>
  /\ UNCHANGED hdrVars
  /\ UNCHANGED modeVars
  /\ UNCHANGED auxVars

\* cdp.send('Page.startScreencast') resolved or rejected
StartScreencastDone ==
  /\ CanResume("startScreencast_send")
  /\ AcksOutstanding(loc.session) \cap loc.before = {}
  /\ casting' = IF CanSend(loc.session)
                THEN {c \in casting : c.s # loc.session}
                       \cup {[s |-> loc.session, cb |-> loc.callback]}
                ELSE casting
  /\ IF CanSend(loc.session)
     THEN Complete(Result("startScreencast", "", 0, 0))
     ELSE Complete(Result("startScreencast", "send failed", 0, 0))
  /\ UNCHANGED <<engineVars, sessVars, connVars, regVars, recVars, bg>>
  /\ UNCHANGED castVars
  /\ UNCHANGED hdrVars
  /\ UNCHANGED modeVars
  /\ UNCHANGED <<nFrames, pending, acks, handed, activeFrame>>

StopScreencastCall ==
  /\ CanCall
  /\ IF ~screencastActive
     THEN Immediate(Result("stopScreencast", "", 0, 0)) /\ UNCHANGED <<screencastActive, castVars>>
     ELSE IF cdpSession # 0
          THEN /\ Suspend("stopScreencast_send",
                          [NoLoc EXCEPT !.session = cdpSession,
                                        !.before = AcksOutstanding(cdpSession)])
               /\ UNCHANGED <<screencastActive, castVars>>
          ELSE IF ActivePage = 0
               THEN /\ Immediate(Result("stopScreencast", "", 0, 0))
                    /\ ClearScreencast
                    /\ UNCHANGED <<sessListeners>>
               ELSE /\ Suspend("stopScreencast_get", [NoLoc EXCEPT !.page = ActivePage])
                    /\ UNCHANGED <<screencastActive, castVars>>
  /\ UNCHANGED <<engineVars, cdpSession, sessPage, liveSessions, connVars, regVars, recVars, bg>>
  /\ UNCHANGED hdrVars
  /\ UNCHANGED modeVars
  /\ UNCHANGED auxVars

StopScreencastSession ==
  /\ CanResume("stopScreencast_get")
  /\ IF loc.page \in openPages
     THEN /\ CreateSession(loc.page)
          /\ pc' = "stopScreencast_send" /\ loc' = [loc EXCEPT !.session = Len(sessPage) + 1]
          /\ UNCHANGED <<screencastActive, castVars, inv, pre, ret>>
     ELSE /\ Complete(Result("stopScreencast", "", 0, 0))
          /\ ClearScreencast
          /\ UNCHANGED <<cdpSession, sessPage, liveSessions, sessListeners>>
  /\ UNCHANGED <<engineVars, connVars, regVars, recVars, bg>>
  /\ UNCHANGED hdrVars
  /\ UNCHANGED modeVars
  /\ UNCHANGED auxVars

\* cdp.send('Page.stopScreencast') resolved (listener removed) or rejected
StopScreencastDone ==
  /\ CanResume("stopScreencast_send")
  /\ AcksOutstanding(loc.session) \cap loc.before = {}
  /\ casting' = CastStopped(loc.session)
  /\ RemoveHandler(loc.session)
  /\ ClearScreencast
  /\ Complete(Result("stopScreencast", "", IF CanSend(loc.session) THEN 1 ELSE 0, 0))
  /\ UNCHANGED <<engineVars, cdpSession, sessPage, liveSessions, connVars, regVars, recVars, bg>>
  /\ UNCHANGED hdrVars
  /\ UNCHANGED modeVars
  /\ UNCHANGED <<nFrames, pending, acks, handed, activeFrame>>

\* ---- scoped headers ----
MaxRoutes == 2     \* route handler closures referenced at once

Hosts == {"example.com", "httpbin.org"}
\* a bare host, or a full URL of that host
Origins == [scheme : {"", "https://"}, host : Hosts]
\* the header sets a caller may pass
Headers == {1, 2}

\* origin.startsWith('http')
StartsWithHttp(o) == o.scheme # "" \/ o.host = "httpbin.org"

\* the argument of new URL(): origin, or `https://${origin}`
UrlInput(o) == IF StartsWithHttp(o) THEN o ELSE [o EXCEPT !.scheme = "https://"]

\* new URL() throws for a text without a scheme
UrlParses(u) == u.scheme # ""

\* `**://${url.host}/**`, or `**://${origin}/**` when new URL() threw
UrlPattern(o) ==
  IF UrlParses(UrlInput(o))
  THEN <<"**://", UrlInput(o).host, "/**">>
  ELSE <<"**://", o.scheme \o o.host, "/**">>

\* Map.get(pat) on the entries m; NoHandler = undefined
RouteHandlerIn(m, pat) ==
  IF \E i \in 1..Len(m) : m[i].pat = pat
  THEN (CHOOSE r \in {m[i] : i \in 1..Len(m)} : r.pat = pat).h
  ELSE NoHandler

\* this.scopedHeaderRoutes.get(pat)
RouteHandler(pat) == RouteHandlerIn(scopedHeaderRoutes, pat)

\* this.scopedHeaderRoutes.set(pat, h): an existing key keeps its position
RoutesSet(pat, h) ==
  IF RouteHandler(pat) # NoHandler
  THEN [i \in 1..Len(scopedHeaderRoutes) |->
          IF scopedHeaderRoutes[i].pat = pat THEN [pat |-> pat, h |-> h] ELSE scopedHeaderRoutes[i]]
  ELSE Append(scopedHeaderRoutes, [pat |-> pat, h |-> h])

\* this.scopedHeaderRoutes.delete(pat)
RoutesDelete(pat) == SelectSeq(scopedHeaderRoutes, LAMBDA r : r.pat # pat)

\* a new closure is any handler that nothing refers to any more; the entry
\* of pat is about to be overwritten
FreshRouteIds(pat) ==
  (1..MaxRoutes) \ ({scopedHeaderRoutes[i].h.id : i \in {j \in 1..Len(scopedHeaderRoutes) : scopedHeaderRoutes[j].pat # pat}}
                    \cup {r.h.id : r \in pageRoutes})

NewRouteHandler(pat, hd) ==
  [id |-> CHOOSE n \in FreshRouteIds(pat) : \A m \in FreshRouteIds(pat) : n <= m, headers |-> hd]

\* page.unroute(pat, h) resolved: the route of that pattern and handler is gone
Unrouted(p, pat, h) == pageRoutes \ {[p |-> p, pat |-> pat, h |-> h]}

\* const handler = ...; this.scopedHeaderRoutes.set(urlPattern, handler),
\* up to the call of page.route()
SetScopedHeadersStore(p, pat, o, hd) ==
  /\ FreshRouteIds(pat) # {}
  /\ scopedHeaderRoutes' = RoutesSet(pat, NewRouteHandler(pat, hd))
  /\ loc' = [NoLoc EXCEPT !.page = p, !.origin = o, !.headers = hd,
                          !.route = [pat |-> pat, h |-> NewRouteHandler(pat, hd)]]

SetScopedHeadersCall(o, hd) ==
  /\ CanCall
  /\ IF Len(pages) = 0
     THEN /\ ImmediateWith(Result("setScopedHeaders", "not launched", 0, 0), [NoLoc EXCEPT !.origin = o, !.headers = hd])
          /\ UNCHANGED hdrVars
     ELSE IF RouteHandler(UrlPattern(o)) # NoHandler
          THEN IF ActivePage = 0
               THEN /\ ImmediateWith(Result("setScopedHeaders", "no page", 0, 0), [NoLoc EXCEPT !.origin = o, !.headers = hd])
                    /\ UNCHANGED hdrVars
               ELSE /\ Suspend("setScopedHeaders_unroute",
                               [NoLoc EXCEPT !.page = ActivePage, !.origin = o, !.headers = hd,
                                             !.route = [pat |-> UrlPattern(o), h |-> RouteHandler(UrlPattern(o))]])
                    /\ UNCHANGED hdrVars
          ELSE /\ SetScopedHeadersStore(ActivePage, UrlPattern(o), o, hd)
               /\ pre' = Snapshot /\ inv' = NoTask /\ UNCHANGED pageRoutes
               /\ IF ActivePage = 0
                  THEN pc' = "done" /\ ret' = Result("setScopedHeaders", "no page", 0, 0)
                  ELSE pc' = "setScopedHeaders_route" /\ ret' = NoRet
  /\ UNCHANGED <<engineVars, sessVars, castVars, connVars, regVars, recVars, bg>>
  /\ UNCHANGED modeVars
  /\ UNCHANGED auxVars

\* page.unroute() settled; on a closed page it may resolve or reject
SetScopedHeadersUnrouted(ok) ==
  /\ CanResume("setScopedHeaders_unroute")
  /\ ok \/ loc.page \notin openPages
  /\ IF ok
     THEN /\ pageRoutes' = Unrouted(loc.page, loc.route.pat, loc.route.h)
          /\ SetScopedHeadersStore(loc.page, loc.route.pat, loc.origin, loc.headers)
          /\ pc' = "setScopedHeaders_route" /\ UNCHANGED <<pre, ret, inv>>
     ELSE /\ Complete(Result("setScopedHeaders", "target closed", 0, 0))
          /\ UNCHANGED hdrVars
  /\ UNCHANGED <<engineVars, sessVars, castVars, connVars, regVars, recVars, bg>>
  /\ UNCHANGED modeVars
  /\ UNCHANGED auxVars

\* page.route() settled
SetScopedHeadersRouted(ok) ==
  /\ CanResume("setScopedHeaders_route")
  /\ ok \/ loc.page \notin openPages
  /\ IF ok
     THEN /\ pageRoutes' = pageRoutes \cup {[p |-> loc.page, pat |-> loc.route.pat, h |-> loc.route.h]}
          /\ Complete(Result("setScopedHeaders", "", 0, 0))
     ELSE /\ Complete(Result("setScopedHeaders", "target closed", 0, 0))
          /\ UNCHANGED pageRoutes
  /\ UNCHANGED scopedHeaderRoutes
  /\ UNCHANGED <<engineVars, sessVars, castVars, connVars, regVars, recVars, bg>>
  /\ UNCHANGED modeVars
  /\ UNCHANGED auxVars

\* clearScopedHeaders(origin)
ClearScopedHeadersCall(o) ==
  /\ CanCall
  /\ IF Len(pages) = 0
     THEN ImmediateWith(Result("clearScopedHeaders", "not launched", 0, 0), [NoLoc EXCEPT !.origin = o])
     ELSE IF RouteHandler(UrlPattern(o)) = NoHandler
          THEN ImmediateWith(Result("clearScopedHeaders", "", 0, 0), [NoLoc EXCEPT !.origin = o])
          ELSE IF ActivePage = 0
               THEN ImmediateWith(Result("clearScopedHeaders", "no page", 0, 0), [NoLoc EXCEPT !.origin = o])
               ELSE Suspend("clearScopedHeaders_unroute",
                            [NoLoc EXCEPT !.page = ActivePage, !.origin = o,
                                          !.route = [pat |-> UrlPattern(o), h |-> RouteHandler(UrlPattern(o))]])
  /\ UNCHANGED <<engineVars, sessVars, castVars, connVars, regVars, recVars, hdrVars, bg>>
  /\ UNCHANGED modeVars
  /\ UNCHANGED auxVars

\* page.unroute() settled, then this.scopedHeaderRoutes.delete(urlPattern)
ClearScopedHeadersUnrouted(ok) ==
  /\ CanResume("clearScopedHeaders_unroute")
  /\ ok \/ loc.page \notin openPages
  /\ IF ok
     THEN /\ pageRoutes' = Unrouted(loc.page, loc.route.pat, loc.route.h)
          /\ scopedHeaderRoutes' = RoutesDelete(loc.route.pat)
          /\ Complete(Result("clearScopedHeaders", "", 0, 0))
     ELSE /\ Complete(Result("clearScopedHeaders", "target closed", 0, 0))
          /\ UNCHANGED hdrVars
  /\ UNCHANGED <<engineVars, sessVars, castVars, connVars, regVars, recVars, bg>>
  /\ UNCHANGED modeVars
  /\ UNCHANGED auxVars

\* clearScopedHeaders(): loc.index is the position of the Map's iterator
ClearAllScopedHeadersCall ==
  /\ CanCall
  /\ IF Len(pages) = 0
     THEN Immediate(Result("clearAllScopedHeaders", "not launched", 0, 0)) /\ UNCHANGED hdrVars
     ELSE IF scopedHeaderRoutes = <<>>
          THEN Immediate(Result("clearAllScopedHeaders", "", 0, 0)) /\ UNCHANGED hdrVars
          ELSE IF ActivePage = 0
               THEN Immediate(Result("clearAllScopedHeaders", "no page", 0, 0)) /\ UNCHANGED hdrVars
               ELSE /\ Suspend("clearAllScopedHeaders_unroute",
                               [NoLoc EXCEPT !.page = ActivePage, !.index = 0, !.route = scopedHeaderRoutes[1]])
                    /\ UNCHANGED hdrVars
  /\ UNCHANGED <<engineVars, sessVars, castVars, connVars, regVars, recVars, bg>>
  /\ UNCHANGED modeVars
  /\ UNCHANGED auxVars

\* one page.unroute() of the loop settled; after the last one,
\* this.scopedHeaderRoutes.clear()
ClearAllScopedHeadersUnrouted(ok) ==
  /\ CanResume("clearAllScopedHeaders_unroute")
  /\ ok \/ loc.page \notin openPages
  /\ IF ok
     THEN /\ pageRoutes' = Unrouted(loc.page, loc.route.pat, loc.route.h)
          /\ IF loc.index + 1 < Len(scopedHeaderRoutes)
             THEN /\ loc' = [loc EXCEPT !.index = loc.index + 1, !.route = scopedHeaderRoutes[loc.index + 2]]
                  /\ UNCHANGED <<pc, pre, ret, inv, scopedHeaderRoutes>>
             ELSE /\ scopedHeaderRoutes' = <<>>
                  /\ Complete(Result("clearAllScopedHeaders", "", 0, 0))
     ELSE /\ Complete(Result("clearAllScopedHeaders", "target closed", 0, 0))
          /\ UNCHANGED hdrVars
  /\ UNCHANGED <<engineVars, sessVars, castVars, connVars, regVars, recVars, bg>>
  /\ UNCHANGED modeVars
  /\ UNCHANGED auxVars

\* ---- recording ----
\* exists: existsSync(outputPath); webm: outputPath.endsWith('.webm');
\* hasUrl: a url argument was given or the current page has a navigable url
StartRecordingError_NoRecordingCheck(exists, webm) ==
  IF ~browser THEN "not launched"
  ELSE IF exists THEN "output exists"
  ELSE IF ~webm THEN "not webm"
  ELSE ""

\* the four checks at the head of startRecording; "" when it goes on
StartRecordingError(exists, webm) ==
  IF recordingContext # 0 THEN "already recording"
  ELSE IF ~browser THEN "not launched"
  ELSE IF exists THEN "output exists"
  ELSE IF ~webm THEN "not webm"
  ELSE ""

StartRecordingCall(exists, webm, hasUrl) ==
  /\ CanCall
  /\ IF StartRecordingError(exists, webm) # ""
     THEN /\ ImmediateWith(Result("startRecording", StartRecordingError(exists, webm), 0, 0),
                           [NoLoc EXCEPT !.exists = exists, !.webm = webm, !.url = hasUrl])
          /\ UNCHANGED recordingTempDir
     ELSE IF Len(contexts) > 0
     THEN /\ Suspend("startRecording_state", [NoLoc EXCEPT !.exists = exists, !.webm = webm, !.url = hasUrl])
          /\ UNCHANGED recordingTempDir
     ELSE /\ Suspend("startRecording_context", [NoLoc EXCEPT !.exists = exists, !.webm = webm, !.url = hasUrl])
          /\ recordingTempDir' = TRUE
  /\ UNCHANGED <<engineVars, sessVars, connVars, regVars, recordingContext, recordingPage, bg>>
  /\ UNCHANGED castVars
  /\ UNCHANGED hdrVars
  /\ UNCHANGED modeVars
  /\ UNCHANGED auxVars

\* currentContext.storageState() settled; mkdirSync(this.recordingTempDir)
StartRecordingState ==
  /\ CanResume("startRecording_state")
  /\ recordingTempDir' = TRUE
  /\ pc' = "startRecording_context"
  /\ UNCHANGED <<engineVars, sessVars, connVars, regVars, recordingContext, recordingPage>>
  /\ UNCHANGED <<loc, inv, pre, ret, bg>>
  /\ UNCHANGED castVars
  /\ UNCHANGED hdrVars
  /\ UNCHANGED modeVars
  /\ UNCHANGED auxVars

\* browser.newContext({recordVideo}) resolved; recordingContext.newPage()
StartRecordingContext ==
  /\ CanResume("startRecording_context")
  /\ nCtx < MaxCtx
  /\ nCtx' = nCtx + 1
  /\ recordingContext' = nCtx + 1
  /\ CreatePage(nCtx + 1, FALSE)
  /\ pc' = "startRecording_page"
  /\ UNCHANGED <<closedCtxs, nExternal, ctxListeners, pageListeners, sessVars, connVars, regVars>>
  /\ UNCHANGED <<recordingPage, recordingTempDir, loc, inv, pre, ret, bg>>
  /\ UNCHANGED castVars
  /\ UNCHANGED hdrVars
  /\ UNCHANGED modeVars
  /\ UNCHANGED auxVars

\* browser.newContext({recordVideo}) rejected: the error leaves startRecording
\* before this.recordingContext is assigned
StartRecordingContextRejected ==
  /\ CanResume("startRecording_context")
  /\ Complete(Result("startRecording", "newContext failed", 0, 0))
  /\ UNCHANGED <<engineVars, sessVars, castVars, connVars, regVars, recVars, hdrVars, bg, modeVars>>
  /\ UNCHANGED auxVars

\* browser.newContext({recordVideo}) resolved and this.recordingContext is
\* assigned; recordingContext.newPage() rejected: the error leaves startRecording
StartRecordingPageRejected ==
  /\ CanResume("startRecording_context")
  /\ nCtx < MaxCtx
  /\ nCtx' = nCtx + 1
  /\ recordingContext' = nCtx + 1
  /\ Complete(Result("startRecording", "newPage failed", 0, 0))
  /\ UNCHANGED <<pageCtx, openPages, closedCtxs, events, ctxListeners, pageListeners, nExternal>>
  /\ UNCHANGED <<sessVars, castVars, connVars, regVars, recordingPage, recordingTempDir>>
  /\ UNCHANGED <<hdrVars, bg, modeVars>>
  /\ UNCHANGED auxVars

\* newPage() resolved: push context and page, track, invalidateCDPSession()
StartRecordingPage ==
  /\ CanResume("startRecording_page")
  /\ \E p \in 1..Len(pageCtx) :
       /\ pageCtx[p] = recordingContext
       /\ \A q \in 1..(p - 1) : pageCtx[q] # recordingContext
       /\ recordingPage' = p
       /\ pages' = Append(pages, p)
       /\ pageListeners' = pageListeners \cup {p}
  /\ contexts' = Append(contexts, recordingContext)
  /\ activePageIndex' = Len(pages)
  /\ pc' = "startRecording_inv" /\ inv' = Task("begin", 0, 0)
  /\ UNCHANGED <<pageCtx, openPages, nCtx, closedCtxs, nExternal, events, ctxListeners>>
  /\ UNCHANGED <<sessVars, connVars, recordingContext, recordingTempDir, loc, pre, ret, bg>>
  /\ UNCHANGED castVars
  /\ UNCHANGED hdrVars
  /\ UNCHANGED modeVars
  /\ UNCHANGED auxVars

\* invalidation done: if (url) await this.recordingPage.goto(url)
StartRecordingInvalidated ==
  /\ CanResume("startRecording_inv") /\ inv.st = "done"
  /\ IF loc.url
     THEN pc' = "startRecording_goto" /\ inv' = NoTask /\ UNCHANGED ret
     ELSE Complete(Result("startRecording", "", 0, 0))
  /\ UNCHANGED <<engineVars, sessVars, connVars, regVars, recVars, loc, pre, bg>>
  /\ UNCHANGED castVars
  /\ UNCHANGED hdrVars
  /\ UNCHANGED modeVars
  /\ UNCHANGED auxVars

StartRecordingGoto ==
  /\ CanResume("startRecording_goto")
  /\ IF recordingPage \in openPages
     THEN Complete(Result("startRecording", "", 0, 0))
     ELSE Complete(Result("startRecording", "target closed", 0, 0))
  /\ UNCHANGED <<engineVars, sessVars, connVars, regVars, recVars, bg>>
  /\ UNCHANGED castVars
  /\ UNCHANGED hdrVars
  /\ UNCHANGED modeVars
  /\ UNCHANGED auxVars

StopRecordingCall ==
  /\ CanCall
  /\ IF recordingContext = 0 \/ recordingPage = 0
     THEN /\ Immediate(Result("stopRecording", "no recording", 0, 0))
          /\ UNCHANGED <<pages, contexts, openPages, events>>
     ELSE /\ pages' = Splice(pages, IndexOf(pages, recordingPage))
          /\ contexts' = Splice(contexts, IndexOf(contexts, recordingContext))
          /\ ClosePage(recordingPage)
          /\ Suspend("stopRecording_close", NoLoc)
  /\ UNCHANGED <<pageCtx, nCtx, closedCtxs, nExternal, ctxListeners, pageListeners>>
  /\ UNCHANGED <<sessVars, connVars, activePageIndex, recVars, bg>>
  /\ UNCHANGED castVars
  /\ UNCHANGED hdrVars
  /\ UNCHANGED modeVars
  /\ UNCHANGED auxVars

\* BrowserContext.close(): closes the pages of the context
PagesOf(c) == {p \in 1..Len(pageCtx) : pageCtx[p] = c}

CloseEvents(c) ==
  SelectSeq([p \in 1..Len(pageCtx) |-> Ev("close", p)],
            LAMBDA e : e.page \in PagesOf(c) \cap openPages \cap pageListeners)

CloseContext(c) ==
  /\ closedCtxs' = closedCtxs \cup {c}
  /\ openPages' = openPages \ PagesOf(c)
  /\ events' = events \o CloseEvents(c)

\* catch block of stopRecording
StopRecordingCatch ==
  /\ recordingContext' = 0 /\ recordingPage' = 0 /\ recordingTempDir' = FALSE
  /\ Complete(Result("stopRecording", "error", 0, 0))

\* recordingPage.close() resolved, then video.saveAs(outputPath) is called;
\* or it rejected
StopRecordingClosed(ok) ==
  /\ CanResume("stopRecording_close")
  /\ IF ok
     THEN pc' = "stopRecording_save" /\ UNCHANGED <<recVars, loc, inv, pre, ret>>
     ELSE StopRecordingCatch
  /\ UNCHANGED <<engineVars, sessVars, connVars, regVars, bg>>
  /\ UNCHANGED castVars
  /\ UNCHANGED hdrVars
  /\ UNCHANGED modeVars
  /\ UNCHANGED auxVars

\* video.saveAs() resolved (saved) or rejected, e.g. the output directory
\* cannot be written
StopRecordingSaved(saved) ==
  /\ CanResume("stopRecording_save")
  /\ IF saved
     THEN /\ CloseContext(recordingContext)
          /\ pc' = "stopRecording_ctxclose"
          /\ UNCHANGED <<recVars, loc, inv, pre, ret>>
     ELSE /\ StopRecordingCatch
          /\ UNCHANGED <<closedCtxs, openPages, events>>
  /\ UNCHANGED <<pageCtx, nCtx, ctxListeners, pageListeners, nExternal>>
  /\ UNCHANGED <<sessVars, connVars, regVars, bg>>
  /\ UNCHANGED castVars
  /\ UNCHANGED hdrVars
  /\ UNCHANGED modeVars
  /\ UNCHANGED auxVars

StopRecordingActive ==
  IF Len(pages) > 0 THEN Min(activePageIndex, Len(pages) - 1) ELSE 0

\* recordingContext.close() resolved: reset, adjust index, invalidate
StopRecordingReset ==
  /\ CanResume("stopRecording_ctxclose")
  /\ recordingContext' = 0 /\ recordingPage' = 0 /\ recordingTempDir' = FALSE
  /\ activePageIndex' = StopRecordingActive
  /\ pc' = "stopRecording_inv" /\ inv' = Task("begin", 0, 0)
  /\ UNCHANGED <<engineVars, sessVars, connVars, contexts, pages, loc, pre, ret, bg>>
  /\ UNCHANGED castVars
  /\ UNCHANGED hdrVars
  /\ UNCHANGED modeVars
  /\ UNCHANGED auxVars

StopRecordingDone ==
  /\ CanResume("stopRecording_inv") /\ inv.st = "done"
  /\ Complete(Result("stopRecording", "", 0, 0))
  /\ UNCHANGED <<engineVars, sessVars, connVars, regVars, recVars, bg>>
  /\ UNCHANGED castVars
  /\ UNCHANGED hdrVars
  /\ UNCHANGED modeVars
  /\ UNCHANGED auxVars

\* ---- getSnapshot: caches the refs of the page it was taken from ----
GetSnapshotCall ==
  /\ CanCall /\ ActivePage # 0
  /\ Suspend("getSnapshot", [NoLoc EXCEPT !.page = ActivePage])
  /\ UNCHANGED <<engineVars, sessVars, castVars, connVars, regVars, recVars, hdrVars, bg>>
  /\ UNCHANGED modeVars
  /\ UNCHANGED auxVars

GetSnapshotDone ==
  /\ CanResume("getSnapshot")
  /\ IF loc.page \in openPages
     THEN refMap' = loc.page /\ Complete(Result("getSnapshot", "", loc.page, 0))
     ELSE UNCHANGED refMap /\ Complete(Result("getSnapshot", "target closed", 0, 0))
  /\ UNCHANGED <<engineVars, sessVars, castVars, connVars, regVars, recVars, hdrVars, bg>>
  /\ UNCHANGED <<cdpEndpoint, remoteSession, callers, handle, provider, noUrl>>
  /\ UNCHANGED auxVars

\* ---- close ----
CloseCall ==
  /\ CanCall
  /\ Suspend("close", NoLoc)
  /\ UNCHANGED <<engineVars, sessVars, castVars, connVars, regVars, recVars, hdrVars, bg>>
  /\ UNCHANGED modeVars
  /\ UNCHANGED auxVars

\* if (this.recordingContext) await this.stopRecording(): stopRecording runs
\* up to its first await in the same step
CloseStopRecording ==
  /\ CanResume("close")
  /\ IF recordingContext # 0 /\ recordingPage # 0
     THEN /\ pages' = Splice(pages, IndexOf(pages, recordingPage))
          /\ contexts' = Splice(contexts, IndexOf(contexts, recordingContext))
          /\ ClosePage(recordingPage)
          /\ pc' = "stopRecording_close" /\ callers' = <<"close">> \o callers
          /\ loc' = [loc EXCEPT !.steps = @ \cup {"recording"}]
     ELSE /\ pc' = "close_screencast"
          /\ UNCHANGED <<pages, contexts, openPages, events, callers, loc>>
  /\ UNCHANGED <<pageCtx, nCtx, closedCtxs, nExternal, ctxListeners, pageListeners>>
  /\ UNCHANGED <<sessVars, castVars, connVars, activePageIndex, recVars, hdrVars, inv, pre, ret, bg>>
  /\ UNCHANGED <<cdpEndpoint, remoteSession, handle, provider, noUrl, refMap>>
  /\ UNCHANGED auxVars

\* if (this.screencastActive) await this.stopScreencast(), up to its first
\* await on the engine
CloseStopScreencast ==
  /\ CanResume("close_screencast")
  /\ IF ~screencastActive
     THEN pc' = "close_session" /\ UNCHANGED <<screencastActive, castVars, callers, loc>>
     ELSE IF cdpSession # 0
     THEN /\ pc' = "stopScreencast_send" /\ callers' = <<"close">> \o callers
          /\ loc' = [loc EXCEPT !.session = cdpSession, !.steps = @ \cup {"screencast"},
                                !.before = AcksOutstanding(cdpSession)]
          /\ UNCHANGED <<screencastActive, castVars>>
     ELSE IF ActivePage = 0
     THEN /\ pc' = "close_session" /\ ClearScreencast
          /\ loc' = [loc EXCEPT !.steps = @ \cup {"screencast"}, !.failed = @ \cup {"screencast"}]
          /\ UNCHANGED <<sessListeners, callers>>
     ELSE /\ pc' = "stopScreencast_get" /\ callers' = <<"close">> \o callers
          /\ loc' = [loc EXCEPT !.page = ActivePage, !.steps = @ \cup {"screencast"}]
          /\ UNCHANGED <<screencastActive, castVars>>
  /\ UNCHANGED <<engineVars, cdpSession, sessPage, liveSessions, connVars, regVars, recVars, hdrVars>>
  /\ UNCHANGED <<inv, pre, ret, bg>>
  /\ UNCHANGED <<cdpEndpoint, remoteSession, handle, provider, noUrl, refMap>>
  /\ UNCHANGED auxVars

\* stopRecording() or stopScreencast() returned to close()
CloseResume ==
  /\ pc = "done" /\ callers # <<>> /\ Head(callers) = "close"
  /\ pc' = IF ret.op = "stopRecording" THEN "close_screencast" ELSE "close_session"
  /\ loc' = IF ret.err # "" \/ (ret.op = "stopScreencast" /\ ret.a = 0)
            THEN [loc EXCEPT !.failed = @ \cup {IF ret.op = "stopRecording" THEN "recording" ELSE "screencast"}]
            ELSE loc
  /\ callers' = Tail(callers) /\ ret' = NoRet /\ inv' = NoTask
  /\ UNCHANGED <<engineVars, sessVars, castVars, connVars, regVars, recVars, hdrVars, pre, bg>>
  /\ UNCHANGED <<cdpEndpoint, remoteSession, handle, provider, noUrl, refMap>>
  /\ UNCHANGED auxVars

\* where close() goes on once the awaited step settled, resolved or rejected
CloseNext_StopOnFailure(step) ==
  IF step \in loc.failed THEN "close_reset"
  ELSE CASE step = "detach" -> "close_teardown"
         [] step = "page" -> "close_pages"
         [] step = "context" -> "close_contexts"
         [] OTHER -> "close_reset"

CloseNext(step) ==
  CASE step = "detach" -> "close_teardown"
    [] step = "page" -> "close_pages"
    [] step = "context" -> "close_contexts"
    [] OTHER -> "close_reset"

\* close() from the session detach on: the next cleanup call is made (ok: it
\* will resolve; otherwise it rejects and the rejection is caught), or the
\* step is skipped because there is nothing to clean up
CloseIssue(ok) ==
  /\ pc \in {"close_session", "close_teardown", "close_pages", "close_contexts", "close_browser"}
  /\ ~BgBegin
  /\ LET wait(step) ==
           /\ pc' = "close_wait"
           /\ loc' = [loc EXCEPT !.mode = step, !.steps = @ \cup {step},
                                 !.index = IF step \in {"page", "context"} THEN @ + 1 ELSE @,
                                 !.session = IF step = "detach" THEN cdpSession ELSE @,
                                 !.closed = IF step = "page" THEN @ \cup {pages[loc.index + 1]} ELSE @,
                                 !.closedCtx = IF step = "context" THEN @ \cup {contexts[loc.index + 1]} ELSE @,
                                 !.failed = IF ok THEN @ ELSE @ \cup {step}]
         skip(label) == pc' = label /\ loc' = [loc EXCEPT !.index = 0]
         none == UNCHANGED <<openPages, events, closedCtxs, handle, liveSessions, provider>>
     IN CASE pc = "close_session" ->
               IF cdpSession # 0
               THEN /\ wait("detach")
                    /\ liveSessions' = IF ok THEN liveSessions \ {cdpSession} ELSE liveSessions
                    /\ UNCHANGED <<openPages, events, closedCtxs, handle, provider>>
               ELSE skip("close_teardown") /\ none
          [] pc = "close_teardown" ->
               IF remoteSession.prov # ""
               THEN /\ wait("remote")
                    /\ provider' = [provider EXCEPT !.teardowns = @ \cup {remoteSession.id},
                                                  !.requests = @ \cup {remoteSession}]
                    /\ IF ok THEN BrowserGone ELSE UNCHANGED <<openPages, events, closedCtxs, handle>>
                    /\ UNCHANGED liveSessions
               ELSE skip(IF cdpEndpoint # 0 THEN "close_browser" ELSE "close_pages") /\ none
          [] pc = "close_pages" ->
               IF loc.index < Len(pages)
               THEN /\ wait("page")
                    /\ IF ok THEN ClosePage(pages[loc.index + 1]) ELSE UNCHANGED <<openPages, events>>
                    /\ UNCHANGED <<closedCtxs, handle, liveSessions, provider>>
               ELSE skip("close_contexts") /\ none
          [] pc = "close_contexts" ->
               IF loc.index < Len(contexts)
               THEN /\ wait("context")
                    /\ IF ok THEN CloseContext(contexts[loc.index + 1])
                       ELSE UNCHANGED <<openPages, events, closedCtxs>>
                    /\ UNCHANGED <<handle, liveSessions, provider>>
               ELSE skip("close_browser") /\ none
          [] pc = "close_browser" ->
               IF browser
               THEN /\ wait("browser")
                    /\ IF ok THEN BrowserGone ELSE UNCHANGED <<openPages, events, closedCtxs, handle>>
                    /\ UNCHANGED <<liveSessions, provider>>
               ELSE skip("close_reset") /\ none
  /\ UNCHANGED <<pageCtx, nCtx, ctxListeners, pageListeners, nExternal>>
  /\ UNCHANGED <<cdpSession, screencastActive, sessPage, castVars, connVars, regVars, recVars, hdrVars>>
  /\ UNCHANGED <<inv, pre, ret, bg>>
  /\ UNCHANGED <<cdpEndpoint, remoteSession, callers, noUrl, refMap>>
  /\ UNCHANGED auxVars

\* the assignments that end close(); launch() goes on when it awaited close()
CloseFields_KeepPages ==
  /\ pages' = pages /\ contexts' = <<>> /\ activePageIndex' = 0
  /\ cdpEndpoint' = 0 /\ remoteSession' = NoRemote /\ isPersistentContext' = FALSE
  /\ refMap' = 0 /\ frameCallback' = 0
  /\ IF callers = <<>>
     THEN Complete(Result("close", "", 0, 0)) /\ UNCHANGED callers
     ELSE pc' = "launch_connect" /\ callers' = Tail(callers) /\ UNCHANGED <<loc, inv, pre, ret>>

CloseFields ==
  /\ pages' = <<>> /\ contexts' = <<>> /\ activePageIndex' = 0
  /\ cdpEndpoint' = 0 /\ remoteSession' = NoRemote /\ isPersistentContext' = FALSE
  /\ refMap' = 0 /\ frameCallback' = 0
  /\ IF callers = <<>>
     THEN Complete(Result("close", "", 0, 0)) /\ UNCHANGED callers
     ELSE pc' = "launch_connect" /\ callers' = Tail(callers) /\ UNCHANGED <<loc, inv, pre, ret>>

\* the awaited cleanup call settled: this.cdpSession = null after the detach,
\* this.browser = null after the teardown request or browser.close(), and
\* from there to the end of close() without another await
CloseAwaited ==
  /\ CanResume("close_wait")
  /\ cdpSession' = IF loc.mode = "detach" THEN 0 ELSE cdpSession
  /\ browser' = IF loc.mode \in {"remote", "browser"} THEN FALSE ELSE browser
  /\ IF CloseNext(loc.mode) = "close_reset"
     THEN CloseFields
     ELSE /\ pc' = CloseNext(loc.mode)
          /\ UNCHANGED <<regVars, frameCallback, isPersistentContext, loc, inv, pre, ret>>
          /\ UNCHANGED <<cdpEndpoint, remoteSession, callers, refMap>>
  /\ UNCHANGED <<engineVars, screencastActive, sessPage, liveSessions>>
  /\ UNCHANGED <<screencastFrameHandler, sessListeners, recVars, hdrVars, bg>>
  /\ UNCHANGED <<handle, provider, noUrl>>
  /\ UNCHANGED auxVars

\* close() with no browser handle to close (a persistent context)
CloseReset ==
  /\ CanResume("close_reset")
  /\ CloseFields
  /\ UNCHANGED <<engineVars, sessVars, screencastFrameHandler, sessListeners, browser, recVars, hdrVars, bg>>
  /\ UNCHANGED <<handle, provider, noUrl>>
  /\ UNCHANGED auxVars

\* ---- the system ----
Engine ==
  \/ \E c \in 1..MaxCtx : ExternalOpen(c)
  \/ \E p \in 1..MaxPages : ExternalClose(p)
  \/ PageOpened
  \/ PageClosed
  \/ \E i \in 1..MaxBg : BgInvalidate(i)

\* the tab registry and the CDP session alone
Next ==
  \/ \E o \in {NoOptions, [NoOptions EXCEPT !.profile = TRUE]} : LaunchCall(o)
  \/ LaunchConnect(TRUE) \/ LaunchBrowser(TRUE) \/ LaunchPersistent \/ LaunchPage
  \/ \E ok \in BOOLEAN : LaunchContext(ok)
  \/ NewTabCall \/ NewTabNewPage \/ NewTabDone
  \/ NewWindowCall \/ NewWindowContext \/ NewWindowDone
  \/ \E index \in Indices : SwitchToCall(index)
  \/ SwitchToDone
  \/ \E useActive \in BOOLEAN : \E index \in Indices : CloseTabCall(useActive, index)
  \/ CloseTabInvalidated \/ CloseTabDone
  \/ EnsurePageCall \/ EnsurePageContext \/ EnsurePageDone
  \/ GetCDPSessionCall \/ GetCDPSessionDone
  \/ CallerInvalidate
  \/ Return
  \/ Engine

Spec == Init /\ [][Next]_vars

\* the calls that create pages, pages closed from outside, and 'page' events
\* that may be delivered a second time
NextRepeat ==
  \/ \E o \in {NoOptions, [NoOptions EXCEPT !.profile = TRUE]} : LaunchCall(o)
  \/ LaunchConnect(TRUE) \/ LaunchBrowser(TRUE) \/ LaunchPersistent \/ LaunchPage
  \/ \E ok \in BOOLEAN : LaunchContext(ok)
  \/ NewTabCall \/ NewTabNewPage \/ NewTabDone
  \/ NewWindowCall \/ NewWindowContext \/ NewWindowDone
  \/ EnsurePageCall \/ EnsurePageContext \/ EnsurePageDone
  \/ GetCDPSessionCall \/ GetCDPSessionDone
  \/ CallerInvalidate
  \/ Return
  \/ PageOpened \/ PageClosed
  \/ \E i \in 1..MaxBg : BgInvalidate(i)
  \/ \E p \in 1..MaxPages : ExternalClose(p)
  \/ \E p \in 1..MaxPages : PageEventRepeated(p)

SpecRepeat == Init /\ [][NextRepeat]_vars

\* tabs of one context together with the screencast
NextCast ==
  \/ LaunchCall(NoOptions) \/ LaunchConnect(TRUE)
  \/ LaunchBrowser(TRUE) \/ LaunchContext(TRUE) \/ LaunchPage
  \/ NewTabCall \/ NewTabNewPage \/ NewTabDone
  \/ \E index \in Indices : SwitchToCall(index)
  \/ SwitchToDone
  \/ \E useActive \in BOOLEAN : \E index \in Indices : CloseTabCall(useActive, index)
  \/ CloseTabInvalidated \/ CloseTabDone
  \/ GetCDPSessionCall \/ GetCDPSessionDone
  \/ StartScreencastCall(1) \/ StartScreencastSession \/ StartScreencastDone
  \/ StopScreencastCall \/ StopScreencastSession \/ StopScreencastDone
  \/ CallerInvalidate
  \/ Return
  \/ Engine

SpecCast == Init /\ [][NextCast]_vars

\* the screencast with either callback, tab creation and tab switches
\* The browser emits 'Page.screencastFrame' on a session it is casting on; every
\* listener of the session runs the frame handler up to its await: it builds the
\* frame and sends Page.screencastFrameAck with the frame's sessionId.
FrameEvent(sess) ==
  /\ ~Micro
  /\ nFrames < MaxFrames
  /\ CanSend(sess)
  /\ \E c \in casting : c.s = sess
  /\ LET f == nFrames + 1
         cast == CHOOSE c \in casting : c.s = sess
         hs == {l \in sessListeners : l.s = sess}
     IN /\ nFrames' = f
        /\ acks' = [acks EXCEPT ![f] = @ + Cardinality(hs)]
        /\ pending' = pending \cup {[f |-> f, s |-> sess, h |-> l.h, cb |-> cast.cb] : l \in hs}
  /\ UNCHANGED <<casting, handed, activeFrame>>
  /\ UNCHANGED <<engineVars, sessVars, castVars, connVars, regVars, recVars, hdrVars, callVars, bg, modeVars>>

\* The handler resumes after its await: a rejected ack ends it, otherwise it calls
\* this.frameCallback(frame) if that field is set at this moment.
FrameAcked(x) ==
  /\ ~Micro
  /\ x \in pending
  /\ (pc \in {"startScreencast_send", "stopScreencast_send"} /\ loc.session = x.s)
       => x.f \in loc.before
  /\ pending' = pending \ {x}
  /\ handed' = IF CanSend(x.s) /\ frameCallback # 0
               THEN Append(handed, [f |-> x.f, cb |-> x.cb, to |-> frameCallback,
                                    live |-> [s |-> x.s, cb |-> x.cb] \in casting])
               ELSE handed
  /\ UNCHANGED <<casting, nFrames, acks, activeFrame>>
  /\ UNCHANGED <<engineVars, sessVars, castVars, connVars, regVars, recVars, hdrVars, callVars, bg, modeVars>>

\* screencast with its frames, tabs opened and switched while it runs
NextFrames ==
  \/ LaunchCall(NoOptions) \/ LaunchConnect(TRUE)
  \/ LaunchBrowser(TRUE) \/ LaunchContext(TRUE) \/ LaunchPage
  \/ NewTabCall \/ NewTabNewPage \/ NewTabDone
  \/ \E index \in Indices : SwitchToCall(index)
  \/ SwitchToDone
  \/ GetCDPSessionCall \/ GetCDPSessionDone
  \/ (\E cb \in Callbacks : StartScreencastCall(cb)) \/ StartScreencastSession \/ StartScreencastDone
  \/ StopScreencastCall \/ StopScreencastDone
  \/ (\E sess \in 1..MaxSessions : FrameEvent(sess))
  \/ (\E x \in pending : FrameAcked(x))
  \/ CallerInvalidate
  \/ Return
  \/ PageOpened
  \/ \E i \in 1..MaxBg : BgInvalidate(i)

SpecFrames == Init /\ [][NextFrames]_vars

NextScreen ==
  \/ LaunchCall(NoOptions) \/ LaunchConnect(TRUE)
  \/ LaunchBrowser(TRUE) \/ LaunchContext(TRUE) \/ LaunchPage
  \/ NewTabCall \/ NewTabNewPage \/ NewTabDone
  \/ \E index \in Indices : SwitchToCall(index)
  \/ SwitchToDone
  \/ GetCDPSessionCall \/ GetCDPSessionDone
  \/ (\E cb \in Callbacks : StartScreencastCall(cb)) \/ StartScreencastSession \/ StartScreencastDone
  \/ StopScreencastCall \/ StopScreencastSession \/ StopScreencastDone
  \/ CallerInvalidate
  \/ Return
  \/ Engine

SpecScreen == Init /\ [][NextScreen]_vars

\* scoped headers, with tab creation, tab switches and pages closed from
\* outside
NextHeaders ==
  \/ LaunchCall(NoOptions) \/ LaunchConnect(TRUE)
  \/ LaunchBrowser(TRUE) \/ LaunchContext(TRUE) \/ LaunchPage
  \/ NewTabCall \/ NewTabNewPage \/ NewTabDone
  \/ \E index \in Indices : SwitchToCall(index)
  \/ SwitchToDone
  \/ \E o \in Origins : \E hd \in Headers : SetScopedHeadersCall(o, hd)
  \/ \E ok \in BOOLEAN : SetScopedHeadersUnrouted(ok)
  \/ \E ok \in BOOLEAN : SetScopedHeadersRouted(ok)
  \/ \E o \in Origins : ClearScopedHeadersCall(o)
  \/ \E ok \in BOOLEAN : ClearScopedHeadersUnrouted(ok)
  \/ ClearAllScopedHeadersCall
  \/ \E ok \in BOOLEAN : ClearAllScopedHeadersUnrouted(ok)
  \/ CallerInvalidate
  \/ Return
  \/ PageOpened \/ PageClosed
  \/ \E i \in 1..MaxBg : BgInvalidate(i)
  \/ \E p \in 1..MaxPages : ExternalClose(p)

SpecHeaders == Init /\ [][NextHeaders]_vars

\* a launch followed by tab creations, nothing happening in the browser
\* besides
NextNewTabs ==
  \/ LaunchCall(NoOptions) \/ LaunchConnect(TRUE)
  \/ LaunchBrowser(TRUE) \/ LaunchContext(TRUE) \/ LaunchPage
  \/ NewTabCall \/ NewTabNewPage \/ NewTabDone
  \/ GetCDPSessionCall \/ GetCDPSessionDone
  \/ CallerInvalidate
  \/ Return
  \/ PageOpened \/ (\E i \in 1..MaxBg : BgInvalidate(i))

SpecNewTabs == Init /\ [][NextNewTabs]_vars

\* the recording lifecycle on top of a launched browser
NextRec ==
  \/ LaunchCall(NoOptions) \/ LaunchConnect(TRUE)
  \/ LaunchBrowser(TRUE) \/ LaunchContext(TRUE) \/ LaunchPage
  \/ NewTabCall \/ NewTabNewPage \/ NewTabDone
  \/ GetCDPSessionCall \/ GetCDPSessionDone
  \/ \E exists, webm, hasUrl \in BOOLEAN : StartRecordingCall(exists, webm, hasUrl)
  \/ StartRecordingState \/ StartRecordingContext \/ StartRecordingPage
  \/ StartRecordingInvalidated \/ StartRecordingGoto
  \/ StopRecordingCall
  \/ \E ok \in BOOLEAN : StopRecordingClosed(ok)
  \/ \E saved \in BOOLEAN : StopRecordingSaved(saved)
  \/ StopRecordingReset \/ StopRecordingDone
  \/ CallerInvalidate
  \/ Return
  \/ Engine

SpecRec == Init /\ [][NextRec]_vars

\* a local or remote session with a debugging session, a screencast and a
\* recording, pages opened from outside, and close()
NextClose ==
  \/ \E o \in {NoOptions, [NoOptions EXCEPT !.provider = "kernel"]} : LaunchCall(o)
  \/ LaunchConnect(TRUE)
  \/ LaunchBrowser(TRUE) \/ LaunchContext(TRUE) \/ LaunchPage
  \/ RemoteCreate(TRUE) \/ RemoteAttach(TRUE, "page")
  \/ GetCDPSessionCall \/ GetCDPSessionDone
  \/ StartScreencastCall(1) \/ StartScreencastSession \/ StartScreencastDone
  \/ StopScreencastSession \/ StopScreencastDone
  \/ StartRecordingCall(FALSE, TRUE, FALSE)
  \/ StartRecordingState \/ StartRecordingContext \/ StartRecordingPage \/ StartRecordingInvalidated
  \/ \E ok \in BOOLEAN : StopRecordingClosed(ok)
  \/ \E saved \in BOOLEAN : StopRecordingSaved(saved)
  \/ StopRecordingReset \/ StopRecordingDone
  \/ CloseCall \/ CloseStopRecording \/ CloseStopScreencast \/ CloseResume
  \/ (\E ok \in BOOLEAN : CloseIssue(ok)) \/ CloseAwaited \/ CloseReset
  \/ CallerInvalidate
  \/ Return
  \/ (\E c \in 1..MaxCtx : ExternalOpen(c)) \/ PageOpened \/ PageClosed
  \/ \E i \in 1..MaxBg : BgInvalidate(i)

SpecClose == Init /\ [][NextClose]_vars

\* close() of a local session that holds scoped-header rules, refs, a
\* debugging session and a screencast
NextCloseMaps ==
  \/ LaunchCall(NoOptions) \/ LaunchConnect(TRUE)
  \/ LaunchBrowser(TRUE) \/ LaunchContext(TRUE) \/ LaunchPage
  \/ GetCDPSessionCall \/ GetCDPSessionDone
  \/ StartScreencastCall(1) \/ StartScreencastSession \/ StartScreencastDone
  \/ StopScreencastDone
  \/ SetScopedHeadersCall([scheme |-> "", host |-> "example.com"], 1)
  \/ SetScopedHeadersUnrouted(TRUE) \/ SetScopedHeadersRouted(TRUE)
  \/ GetSnapshotCall \/ GetSnapshotDone
  \/ CloseCall \/ CloseStopRecording \/ CloseStopScreencast \/ CloseResume
  \/ (\E ok \in BOOLEAN : CloseIssue(ok)) \/ CloseAwaited \/ CloseReset
  \/ Return
  \/ PageOpened \/ PageClosed

SpecCloseMaps == Init /\ [][NextCloseMaps]_vars

\* every launch option, relaunch and close, with connections that succeed
\* or are refused
NextLaunch ==
  \/ \E o \in LaunchOptions : LaunchCall(o)
  \/ LaunchConnect(TRUE)
  \/ (\E ok \in BOOLEAN : LaunchBrowser(ok)) \/ LaunchPersistent \/ LaunchPage
  \/ LaunchContext(TRUE)
  \/ \E found \in BOOLEAN : AutoConnect(found)
  \/ \E ok \in BOOLEAN : AttachConnected(ok, [n |-> 1, pg |-> <<[c |-> 1, url |-> TRUE]>>])
  \/ \E ok \in BOOLEAN : RemoteCreate(ok)
  \/ RemoteAttach(TRUE, "page")
  \/ GetCDPSessionCall \/ GetCDPSessionDone
  \/ CloseCall \/ CloseStopRecording \/ CloseStopScreencast
  \/ CloseIssue(TRUE) \/ CloseAwaited \/ CloseReset
  \/ Return
  \/ PageOpened \/ PageClosed
  \/ \E p \in 1..MaxPages : ExternalClose(p)
  \/ ExternalDisconnect

SpecLaunch == Init /\ [][NextLaunch]_vars

\* the remote provider adapters with every outcome of their requests
NextRemote ==
  \/ \E o \in {[NoOptions EXCEPT !.provider = "browserbase"], [NoOptions EXCEPT !.provider = "browseruse"],
               [NoOptions EXCEPT !.provider = "kernel"], [NoOptions EXCEPT !.env = "kernel"],
               [NoOptions EXCEPT !.provider = "browserbase", !.env = "kernel"], NoOptions} : LaunchCall(o)
  \/ \E keys \in BOOLEAN : LaunchConnect(keys)
  \/ LaunchBrowser(TRUE) \/ LaunchContext(TRUE) \/ LaunchPage
  \/ \E ok \in BOOLEAN : RemoteCreate(ok)
  \/ \E ok \in BOOLEAN : \E has \in {"page", "context", "none"} : RemoteAttach(ok, has)
  \/ \E ok \in BOOLEAN : RemoteCreated(ok)
  \/ \E ok \in BOOLEAN : RemoteTeardown(ok)
  \/ CloseCall \/ CloseStopRecording \/ CloseStopScreencast
  \/ (\E ok \in BOOLEAN : CloseIssue(ok)) \/ CloseAwaited \/ CloseReset
  \/ Return
  \/ PageOpened \/ PageClosed

SpecRemote == Init /\ [][NextRemote]_vars

\* attaching to browsers of every shape, by endpoint or by discovery
NextAttach ==
  \/ \E o \in {[NoOptions EXCEPT !.cdp = 1], [NoOptions EXCEPT !.autoConnect = TRUE]} : LaunchCall(o)
  \/ LaunchConnect(TRUE)
  \/ \E found \in BOOLEAN : AutoConnect(found)
  \/ \E ok \in BOOLEAN : \E sh \in AttachShapes : AttachConnected(ok, sh)
  \/ AttachClosed
  \/ CloseCall \/ CloseStopRecording \/ CloseStopScreencast
  \/ CloseIssue(TRUE) \/ CloseAwaited \/ CloseReset
  \/ Return
  \/ PageClosed
  \/ \E p \in 1..MaxPages : ExternalClose(p)

SpecAttach == Init /\ [][NextAttach]_vars

TypeOK ==
  /\ Len(pageCtx) <= MaxPages /\ nCtx <= MaxCtx /\ Len(sessPage) <= MaxSessions
  /\ Len(bg) <= MaxBg
  /\ cdpSession \in 0..MaxSessions
  /\ activePageIndex \in Indices


\* ---- observations used by the properties ----
\* no operation of the caller is in flight
Completed == pc \in {"idle", "done"}

\* nothing is in flight at all
Quiescent == pc = "idle" /\ bg = <<>> /\ events = <<>>

Returned(op) == pc = "done" /\ ret.op = op /\ ret.err = ""

\* listTabs(): one entry per tracked page
listTabs ==
  [i \in 1..Len(pages) |-> [index |-> i - 1, page |-> pages[i], active |-> (i - 1 = activePageIndex)]]

\* C1: whenever no caller operation is in flight and pages are tracked, the
\* active index denotes a tracked page: 0 <= activePageIndex < pages.length.
C1_ActiveIndexInRange ==
  (Completed /\ Len(pages) > 0) => (activePageIndex >= 0 /\ activePageIndex < Len(pages))

\* C2: in a quiescent state a cached CDP session was created for the page at
\* the active index, and that page is open.
C2_SessionBoundToActivePage ==
  (Quiescent /\ cdpSession # 0) =>
    (sessPage[cdpSession] = ActivePage /\ sessPage[cdpSession] \in openPages)


\* C3: when switchTo(j), j different from the active index, or closeTab of
\* the active tab returns, the session cached before is detached and the
\* cache is empty; a getCDPSession() that finds the cache empty returns a new
\* session, created for the page that is active when it is called.
C3_SwitchInvalidatesSession ==
  /\ ((Returned("switchTo") /\ ret.a # pre.active) \/ (Returned("closeTab") /\ ret.a = pre.active))
       => (cdpSession = 0 /\ pre.cs \notin liveSessions)
  /\ (Returned("getCDPSession") /\ pre.cs = 0)
       => /\ ret.a = cdpSession /\ ret.a = Len(sessPage) /\ ret.a \in liveSessions
          /\ sessPage[ret.a] = At(pre.pages, pre.active)

\* C4: switchTo(i) with i the active index changes nothing: same cached
\* session, same screencast state, same pages and active index.
C4_SwitchToSameIndexNoOp ==
  (Returned("switchTo") /\ ret.a = pre.active) =>
    /\ pages = pre.pages /\ activePageIndex = pre.active
    /\ cdpSession = pre.cs /\ screencastActive = pre.sa

C4_Witness == Returned("switchTo") /\ ret.a = pre.active /\ pre.cs # 0 /\ pre.sa

\* C5: when newTab() or newWindow() returns, the session that was cached for
\* the previously active page is no longer the cached one.
C5_NewTabWindowInvalidates ==
  ((Returned("newTab") \/ Returned("newWindow")) /\ pre.cs # 0) => cdpSession # pre.cs

\* C6: getCDPSession() never returns the session that the 'page' handler's
\* invalidation is detaching, i.e. the one of the previously active page.
C6_NoStaleSessionAfterPageEvent ==
  Returned("getCDPSession") => \A i \in 1..Len(bg) : bg[i].st = "detach" => bg[i].s # ret.a

\* C7: no page appears twice in the tracked page sequence.
C7_NoDuplicatePages ==
  \A i, j \in 1..Len(pages) : i # j => pages[i] # pages[j]

\* every created page is open and tracked once although one of them had its
\* 'page' event delivered and handled twice
C7_Witness ==
  /\ pc = "idle" /\ events = <<>> /\ nExternal > 0
  /\ openPages = 1..Len(pageCtx) /\ Len(pages) = Len(pageCtx) /\ Len(pages) >= 2

\* C8: closeTab(i), with nothing else happening in the browser meanwhile,
\* leaves the prior sequence without the page at i and reports its length.
C8_CloseTabRemovesExactlyOne ==
  (Returned("closeTab") /\ nExternal = pre.ext) =>
    (pages = Splice(pre.pages, ret.a) /\ ret.b = Len(pre.pages) - 1)

\* C9: after a launch and any number of newTab() calls, listTabs() has one
\* entry per created tab, indices 0,1,2,..., exactly one active entry, and
\* when newTab returns the active entry is the created tab at the returned
\* index.
C9_ListTabsAfterNewTabs ==
  /\ (Completed /\ browser /\ Len(pageCtx) > 0) =>
       /\ Len(listTabs) = Len(pageCtx)
       /\ \A i \in 1..Len(listTabs) : listTabs[i].index = i - 1 /\ listTabs[i].page = i
       /\ Cardinality({i \in 1..Len(listTabs) : listTabs[i].active}) = 1
       /\ listTabs[Len(listTabs)].active
  /\ Returned("newTab") =>
       /\ ret.a = Len(listTabs) - 1 /\ ret.b = Len(listTabs)
       /\ listTabs[ret.a + 1].active /\ listTabs[ret.a + 1].page = loc.page

C9_Witness == Returned("newTab") /\ Len(pages) = 3 /\ events = <<>>

\* C10: closeTab aimed at the only tracked tab (target index 0 of a sequence
\* of one) fails with the "use close" error and leaves pages, active index,
\* session and screencast as they were.
C10_CloseLastTabRejected ==
  (pc = "done" /\ ret.op = "closeTab" /\ Len(pre.pages) = 1 /\ ret.a = 0) =>
    /\ ret.err = "last tab"
    /\ pages = pre.pages /\ activePageIndex = pre.active
    /\ cdpSession = pre.cs /\ screencastActive = pre.sa

\* C10 as worded: every closeTab call made while one tab is tracked, whatever
\* its index, fails with the "use close" error.
C10_AnyCloseTabRejectedAsLastTab ==
  (pc = "done" /\ ret.op = "closeTab" /\ Len(pre.pages) = 1) => ret.err = "last tab"

C10_Witness ==
  pc = "done" /\ ret.op = "closeTab" /\ ret.err = "last tab" /\ pre.cs # 0 /\ pre.sa

\* C11: ensurePage() called on a launched manager that tracks no page, with
\* nothing else happening in the browser meanwhile, returns with exactly one
\* tracked page, created by this call on the last tracked context and open,
\* and the active index designates it.
C11_EnsurePageRecovers ==
  (Returned("ensurePage") /\ pre.pages = <<>> /\ isLaunched /\ nExternal = pre.ext) =>
    /\ pages = <<loc.page>> /\ loc.page \in openPages
    /\ loc.page = Len(pageCtx)
    /\ pageCtx[loc.page] = At(contexts, Len(contexts) - 1)
    /\ activePageIndex = 0 /\ ActivePage = loc.page

\* every page was closed from outside and ensurePage() created a new one
C11_Witness ==
  /\ Returned("ensurePage") /\ pre.pages = <<>> /\ pre.ext > 0
  /\ Len(pages) = 1 /\ Len(pageCtx) >= 2

\* C12: ensurePage() called while a page is tracked changes nothing: same
\* pages, contexts, active index and cached session, and no page, context or
\* session is created.
C12_EnsurePageNoOp ==
  (pc = "done" /\ ret.op = "ensurePage" /\ Len(pre.pages) > 0) =>
    /\ ret.err = ""
    /\ pages = pre.pages /\ contexts = pre.contexts /\ activePageIndex = pre.active
    /\ cdpSession = pre.cs
    /\ Len(pageCtx) = pre.nPages /\ nCtx = pre.nCtx /\ Len(sessPage) = pre.nSess

\* ensurePage() returned on a manager with a tracked page and a cached session
C12_Witness ==
  Returned("ensurePage") /\ Len(pre.pages) > 0 /\ pre.cs # 0

\* C13: startScreencast while a screencast is active fails with "Screencast
\* already active"; the screencast stays active with the callback, handler
\* and listeners it had, and the cached session is the same, none created.
C13_StartScreencastTwiceRejected ==
  (pc = "done" /\ ret.op = "startScreencast" /\ pre.sa) =>
    /\ ret.err = "already active"
    /\ screencastActive
    /\ <<frameCallback, screencastFrameHandler, sessListeners>> = pre.cast
    /\ cdpSession = pre.cs /\ Len(sessPage) = pre.nSess

\* the rejected call passed another callback than the running screencast's
C13_Witness ==
  /\ pc = "done" /\ ret.op = "startScreencast" /\ ret.err = "already active"
  /\ frameCallback # 0 /\ ret.a # frameCallback /\ cdpSession # 0
  /\ [s |-> cdpSession, h |-> screencastFrameHandler] \in sessListeners

Invalidations == {inv} \cup {bg[i] : i \in 1..Len(bg)}

\* C15: an invalidation detaches the cached session only after the screencast
\* was stopped, so in every state an active screencast has a cached session:
\* screencastActive implies cdpSession is not null, and while the cached
\* session is being detached screencastActive is false.
C15_ScreencastStoppedBeforeDetach ==
  /\ screencastActive => cdpSession # 0
  /\ \A t \in Invalidations : (t.st = "detach" /\ t.s = cdpSession) => ~screencastActive

\* C16: getCDPSession() returns the cached session when there is one and
\* creates none; at most one CDP session is live (created and not yet
\* detached) at any time, because the only live session is the cached one:
\* a live session is this.cdpSession, or the one an invalidation is
\* detaching.  A live session that is neither is never detached, and the
\* next getCDPSession() creates a second one beside it.
C16_OneCachedSession ==
  /\ (Returned("getCDPSession") /\ pre.cs # 0) => (ret.a = pre.cs /\ Len(sessPage) = pre.nSess)
  /\ Cardinality(liveSessions) <= 1
  /\ \A s \in liveSessions :
       s = cdpSession \/ \E t \in Invalidations : t.st = "detach" /\ t.s = s

\* the interception rules in force: routes registered on pages that are open
ActiveRules == {r \in pageRoutes : r.p \in openPages}

\* C17: a full URL and the bare host of the same origin derive the same
\* pattern; after setScopedHeaders(origin, headers) returned, the page it
\* acted on being open, exactly one interception rule is in force for the
\* origin's pattern, the one of this call carrying its headers only; and
\* while the new rule is being attached no earlier rule of that pattern is in
\* force any more, on whatever tab it was attached.
C17_SetScopedHeadersReplaces ==
  /\ \A o1, o2 \in Origins : o1.host = o2.host => UrlPattern(o1) = UrlPattern(o2)
  /\ (Returned("setScopedHeaders") /\ loc.page \in openPages) =>
       /\ {r \in ActiveRules : r.pat = UrlPattern(loc.origin)}
            = {[p |-> loc.page, pat |-> UrlPattern(loc.origin), h |-> RouteHandler(UrlPattern(loc.origin))]}
       /\ RouteHandler(UrlPattern(loc.origin)).headers = loc.headers
  /\ pc = "setScopedHeaders_route" => {r \in ActiveRules : r.pat = loc.route.pat} = {}

\* C18: clearScopedHeaders(origin) on an origin that has a rule removes that
\* rule and no other (no rule of its pattern stays in force, the rules and Map
\* entries of other patterns are untouched); clearScopedHeaders() leaves no
\* rule in force and an empty Map; clearScopedHeaders(origin) on an origin
\* without a rule resolves and changes nothing.
C18_ClearScopedHeaders ==
  /\ (/\ Returned("clearScopedHeaders")
      /\ RouteHandlerIn(pre.routes[1], UrlPattern(loc.origin)) # NoHandler
      /\ loc.page \in openPages) =>
       /\ {r \in ActiveRules : r.pat = UrlPattern(loc.origin)} = {}
       /\ {r \in pageRoutes : r.pat # UrlPattern(loc.origin)}
            = {r \in pre.routes[2] : r.pat # UrlPattern(loc.origin)}
       /\ scopedHeaderRoutes = SelectSeq(pre.routes[1], LAMBDA r : r.pat # UrlPattern(loc.origin))
  /\ Returned("clearAllScopedHeaders") => (ActiveRules = {} /\ scopedHeaderRoutes = <<>>)
  /\ (/\ pc = "done" /\ ret.op = "clearScopedHeaders" /\ Len(pre.pages) > 0
      /\ RouteHandlerIn(pre.routes[1], UrlPattern(loc.origin)) = NoHandler) =>
       (ret.err = "" /\ <<scopedHeaderRoutes, pageRoutes>> = pre.routes)

\* C19: startRecording() called while a recording is active, with no browser
\* launched, with an output path that exists or with one that does not end
\* in .webm is rejected, and the rejection leaves everything as it was: no
\* temp dir, context or page is created, and the recording state, the
\* registry and the CDP session are unchanged.  Hence a startRecording()
\* that went past the checks was called with no recording active.
C19_StartRecordingRejections ==
  /\ (/\ pc = "done" /\ ret.op = "startRecording"
      /\ (pre.rec[1] # 0 \/ ~browser \/ loc.exists \/ ~loc.webm)) =>
       /\ ret.err \in {"already recording", "not launched", "output exists", "not webm"}
       /\ pre.rec[1] # 0 => ret.err = "already recording"
       /\ <<recordingContext, recordingPage, recordingTempDir>> = pre.rec
       /\ pages = pre.pages /\ contexts = pre.contexts /\ activePageIndex = pre.active
       /\ cdpSession = pre.cs /\ Len(sessPage) = pre.nSess
       /\ nCtx = pre.nCtx /\ Len(pageCtx) = pre.nPages
  /\ pc \in {"startRecording_state", "startRecording_context", "startRecording_page",
             "startRecording_inv", "startRecording_goto"} =>
       (pre.rec[1] = 0 /\ browser /\ ~loc.exists /\ loc.webm)

C19_Witness ==
  /\ pc = "done" /\ ret.op = "startRecording" /\ ret.err = "already recording"
  /\ ~loc.exists /\ loc.webm /\ recordingContext # 0 /\ recordingPage \in openPages

\* C20: stopRecording() on an active recording returns (an error being
\* reported in the result) with the recording page and context out of the
\* tracked sequences, the recording context closed, the temp dir deleted and
\* the recording state reset; with no recording active it returns an error
\* and changes nothing.
C20_StopRecordingAlwaysEnds ==
  /\ (pc = "done" /\ ret.op = "stopRecording" /\ pre.rec[1] # 0 /\ pre.rec[2] # 0) =>
       /\ ret.err \in {"", "error"}
       /\ ~Includes(pages, pre.rec[2]) /\ ~Includes(contexts, pre.rec[1])
       /\ pre.rec[1] \in closedCtxs
       /\ <<recordingContext, recordingPage, recordingTempDir>> = <<0, 0, FALSE>>
  /\ (pc = "done" /\ ret.op = "stopRecording" /\ (pre.rec[1] = 0 \/ pre.rec[2] = 0)) =>
       /\ ret.err = "no recording"
       /\ <<recordingContext, recordingPage, recordingTempDir>> = pre.rec
       /\ pages = pre.pages /\ contexts = pre.contexts /\ activePageIndex = pre.active
       /\ cdpSession = pre.cs /\ nCtx = pre.nCtx /\ Len(pageCtx) = pre.nPages

\* C30: the 'close' handler of a tracked page removes exactly that page from
\* this.pages (nothing when it is already absent), keeps the order of the
\* others, and leaves activePageIndex in range: not negative and not past the
\* new end.
C30_CloseHandlerKeepsIndexInRange ==
  [][(/\ events # <<>> /\ Head(events).type = "close" /\ events' = Tail(events)
      /\ Head(events).page \in pageListeners) =>
       /\ pages' = SelectSeq(pages, LAMBDA q : q # Head(events).page)
       /\ activePageIndex' >= 0
       /\ activePageIndex' < Len(pages') \/ (pages' = <<>> /\ activePageIndex' = 0)]_vars

\* C21: when close() returns, also when it was called on a closed manager, it
\* has not thrown and the manager holds nothing of the session: no tracked
\* page or context, no refs, no scoped-header rule, no debugging session, no
\* screencast, no recording, and isLaunched() is false.
C21_CloseLeavesNothing ==
  (pc = "done" /\ ret.op = "close") =>
    /\ ret.err = ""
    /\ pages = <<>> /\ contexts = <<>> /\ refMap = 0
    /\ scopedHeaderRoutes = <<>>
    /\ ~isLaunched
    /\ cdpSession = 0 /\ ~screencastActive /\ recordingContext = 0

\* what close() leaves when it returns, and the steps it has gone through
C22_AfterClose ==
  (pc = "done" /\ ret.op = "close") =>
    /\ ret.err = ""
    /\ ~isLaunched /\ pages = <<>> /\ contexts = <<>> /\ activePageIndex = 0
    /\ cdpEndpoint = 0 /\ remoteSession = NoRemote
    /\ pre.rec[1] # 0 => ("recording" \in loc.steps /\ recordingContext = 0)
    /\ pre.sa => ~screencastActive
    /\ "detach" \in loc.steps => (loc.session \notin liveSessions \/ "detach" \in loc.failed)
    /\ pre.mode[4] # NoRemote =>
         ("remote" \in loc.steps /\ pre.mode[4].id \in provider.teardowns)
    /\ (pre.mode[4] = NoRemote /\ pre.mode[1]) => "browser" \in loc.steps
    /\ (pre.mode[4] = NoRemote /\ pre.mode[3] = 0
        /\ \E i \in 1..Len(pre.contexts) : pre.contexts[i] # pre.rec[1]) => "context" \in loc.steps

\* C22: close() never throws and always ends with the session fields reset,
\* whichever of its cleanup steps failed; every step that applies to the
\* session has been attempted when it returns: the recording and the
\* screencast are stopped, a remote session got its teardown request, the
\* contexts of a local session and the browser handle got their close(); and
\* whatever failed before, close() sends the detach when it reaches that step
\* with a debugging session cached.
C22_CloseSwallowsFailures ==
  /\ []C22_AfterClose
  /\ [][(pc = "close_session" /\ cdpSession # 0 /\ pc' # pc) =>
          (pc' = "close_wait" /\ loc'.mode = "detach" /\ loc'.session = cdpSession)]_vars

\* close() returned after its recording, detach and page-close steps failed,
\* having gone on to close the browser
C22_Witness ==
  /\ pc = "done" /\ ret.op = "close"
  /\ {"recording", "detach", "page"} \subseteq loc.failed
  /\ "browser" \in loc.steps

\* the validation rules of launch, as rules on the options
C23_ViolatesRule(o) ==
  \/ o.cdp # 0 /\ (o.extensions \/ o.profile)
  \/ o.storageState /\ (o.profile \/ o.extensions)
  \/ o.engine # "chromium" /\ (o.extensions \/ o.allowFileAccess)

\* what a launch call must leave as it was when it does nothing
C23_LaunchLeftUnchanged ==
  /\ pages = pre.pages /\ contexts = pre.contexts /\ activePageIndex = pre.active
  /\ cdpSession = pre.cs
  /\ <<browser, isPersistentContext, cdpEndpoint, remoteSession, handle.id>> = SubSeq(pre.mode, 1, 5)
  /\ <<openPages, closedCtxs, liveSessions, provider.calls>> = pre.engine
  /\ Len(pageCtx) = pre.nPages /\ nCtx = pre.nCtx

\* C23: a launch whose options violate a validation rule fails at once,
\* whatever the manager's state: it never gets to an await (it has returned
\* an error, or is about to pick the connection strategy in the same turn),
\* the session it was called on is untouched, and no browser, context, page
\* or remote session has been created.
C23_InvalidOptionsRejectedFirst ==
  C23_ViolatesRule(loc.opts) =>
    /\ \/ pc = "done" /\ ret.op = "launch" /\ ret.err # ""
       \/ pc = "launch_connect"
    /\ C23_LaunchLeftUnchanged

\* the connection mode a launch asks for, and the mode of the session
\* described by pre.mode
C24_RequestedMode(o) ==
  IF o.cdp # 0 THEN <<"attach", o.cdp>>
  ELSE IF o.autoConnect THEN <<"auto">>
  ELSE IF SelectedProvider(o) \in Providers THEN <<"remote", SelectedProvider(o)>>
  ELSE <<"local">>

C24_ModeOf(m) ==
  IF m[4] # NoRemote THEN <<"remote", m[4].prov>>
  ELSE IF m[3] = AutoEndpoint THEN <<"auto">>
  ELSE IF m[3] # 0 THEN <<"attach", m[3]>>
  ELSE <<"local">>

\* C24: launch called on a launched manager, asking for the mode the session
\* is in, over a connection that is alive, returns without error and changes
\* nothing: same browser handle, same tracked contexts and pages, same
\* active index, same debugging session, nothing closed and nothing created.
C24_RelaunchSameModeNoOp ==
  (/\ pc = "done" /\ ret.op = "launch"
   /\ pre.mode[1] \/ pre.mode[2]
   /\ pre.mode[6]
   /\ ~C23_ViolatesRule(loc.opts)
   /\ C24_RequestedMode(loc.opts) = C24_ModeOf(pre.mode)) =>
    ret.err = "" /\ C23_LaunchLeftUnchanged

\* launch({cdpPort}) returned on a manager attached to that endpoint that
\* holds a debugging session
C24_Witness ==
  /\ pc = "done" /\ ret.op = "launch"
  /\ pre.mode[1] /\ pre.mode[6] /\ pre.mode[3] = 1 /\ loc.opts.cdp = 1
  /\ pre.cs # 0 /\ pre.pages # <<>>

\* the launch asks for another endpoint or switches between attach,
\* auto-connect and local launch, or the session is attached over a
\* connection that is no longer alive
C25_ModeSwitch(o, m) ==
  \/ /\ m[4] = NoRemote /\ C24_RequestedMode(o)[1] # "remote"
     /\ C24_RequestedMode(o) # C24_ModeOf(m)
  \/ m[3] # 0 /\ ~m[6]

\* C25: when launch, called on a launched manager, returns after a mode
\* switch or over a dead connection, the prior session has been closed: none
\* of its pages and contexts is tracked any more and its browser handle is
\* not held; if the new session could not be established the manager is
\* closed (no browser handle, no tracked page, isLaunched() false).
C25_RelaunchClosesPriorSession ==
  (/\ pc = "done" /\ ret.op = "launch"
   /\ pre.mode[1] \/ pre.mode[2]
   /\ ~C23_ViolatesRule(loc.opts)
   /\ C25_ModeSwitch(loc.opts, pre.mode)) =>
    /\ \A i \in 1..Len(pre.pages) : ~Includes(pages, pre.pages[i])
    /\ \A i \in 1..Len(pre.contexts) : ~Includes(contexts, pre.contexts[i])
    /\ pre.mode[1] => (~browser \/ handle.id # pre.mode[5])
    /\ ret.err # "" => (~isLaunched /\ pages = <<>>)

\* C26: when a provider adapter fails after the provider created a session,
\* launch returns the error of the step that failed, the teardown request for
\* that session has been sent (whether it succeeded or not), and the manager
\* records no remote session, browser, context or page.
C26_RemoteFailureTearsDown ==
  (pc = "done" /\ ret.op = "launch" /\ ret.err # "" /\ loc.remote # 0) =>
    /\ loc.remote \in provider.teardowns
    /\ ret.err \in {"connect failed", "no context", "newContext failed", "newPage failed"}
    /\ remoteSession = NoRemote /\ ~browser /\ contexts = <<>> /\ pages = <<>>

\* C27: a create-session request is sent to a provider only by a launch that
\* names the provider in its provider option or, when the option is absent,
\* through AGENT_BROWSER_PROVIDER; the adapter used is the one of the option
\* when both are given.
C27_RemoteOnlyWhenNamed ==
  [][provider'.calls # provider.calls =>
       /\ loc.opts.provider \in Providers \/ (loc.opts.provider = "" /\ loc.opts.env \in Providers)
       /\ loc'.mode = IF loc.opts.provider # "" THEN loc.opts.provider ELSE loc.opts.env]_vars

\* a session is being created at the provider named by the option although
\* the environment names another one
C27_Witness ==
  /\ pc = "remote_create" /\ provider.calls > 0
  /\ loc.opts.provider = "browserbase" /\ loc.opts.env = "kernel" /\ loc.mode = "browserbase"

\* the launch that just settled attached to a browser by endpoint or discovery
C28_Attached == pc = "done" /\ ret.op = "launch" /\ ret.err = "" /\ cdpEndpoint # 0 /\ handle.id # pre.mode[5]

C28_WitnessNoPage ==
  pc = "done" /\ ret.op = "launch" /\ ret.err = "no page" /\ ~handle.connected

C31_PathTaken ==
  (pc = "done" /\ ret.op = "close") =>
    /\ cdpEndpoint = 0 /\ remoteSession = NoRemote
    /\ pre.mode[4] # NoRemote =>
         /\ pre.mode[4] \in provider.requests
         /\ \A r \in provider.requests : r.id = pre.mode[4].id => r.prov = pre.mode[4].prov
         /\ loc.steps \cap {"page", "context", "browser"} = {}
    /\ (pre.mode[4] = NoRemote /\ pre.mode[3] # 0) =>
         /\ loc.steps \cap {"page", "context", "remote"} = {}
         /\ loc.closed = {} /\ loc.closedCtx = {}
         /\ pre.mode[1] => "browser" \in loc.steps
    /\ (pre.mode[4] = NoRemote /\ pre.mode[3] = 0) =>
         /\ "remote" \notin loc.steps
         /\ \A i \in 1..Len(pre.contexts) :
              pre.contexts[i] # pre.rec[1] => pre.contexts[i] \in loc.closedCtx
         /\ pre.mode[1] => "browser" \in loc.steps

\* C31: close() takes the one teardown path of the session: a remote session
\* gets the teardown request of its provider with its stored id and nothing
\* else is closed; an attached session is only disconnected; in a local
\* session page.close() has been called on every page still tracked when the
\* page loop ends, every context got its close() and then the browser; the
\* endpoint and the remote identifiers are cleared on every path.
C31_ClosePathByMode ==
  /\ []C31_PathTaken
  /\ [][(pc = "close_pages" /\ pc' = "close_contexts") =>
          \A i \in 1..Len(pages) : pages[i] \in loc.closed]_vars

\* C36: a startScreencast that fails after its already-active check (no page,
\* the session cannot be created, or Page.startScreencast is rejected) leaves
\* no screencast behind: isScreencasting() is false, the call has left no
\* frame listener registered, and the next startScreencast is not rejected
\* as already active.
C36_FailedStartLeavesNoScreencast ==
  (pc = "done" /\ ret.op = "startScreencast" /\ ret.err \in {"no page", "target closed", "send failed"}) =>
    /\ ~screencastActive
    /\ sessListeners \subseteq pre.cast[3]
    /\ ~StartScreencastRejects


\* getFrame(): the page owning the frame it returns (0: getPage() throws)
getFrame == IF activeFrame # 0 THEN activeFrame ELSE ActivePage

\* getLocatorFromRef(refArg): known = the parsed ref is a key of this.refMap.
\* ret.a is the page the locator is built on, ret.b the page whose snapshot
\* produced the ref.
GetLocatorFromRef(known) ==
  /\ CanCall
  /\ Immediate(IF ~known \/ refMap = 0 THEN Result("getLocatorFromRef", "null", 0, 0)
               ELSE IF ActivePage = 0
                    THEN Result("getLocatorFromRef", "not launched", 0, refMap)
                    ELSE Result("getLocatorFromRef", "", ActivePage, refMap))
  /\ UNCHANGED <<engineVars, sessVars, castVars, connVars, regVars, recVars, hdrVars, bg, modeVars>>
  /\ UNCHANGED auxVars

\* switchToFrame(options): how = "selector" awaits page.$ and contentFrame(),
\* how = "name" (or url) looks the frame up synchronously; found = the page has
\* such a frame
SwitchToFrameCall(how, found) ==
  /\ CanCall
  /\ IF ActivePage = 0
     THEN Immediate(Result("switchToFrame", "not launched", 0, 0)) /\ UNCHANGED activeFrame
     ELSE IF how = "selector"
     THEN /\ Suspend("switchToFrame_query", [NoLoc EXCEPT !.page = ActivePage, !.exists = found])
          /\ UNCHANGED activeFrame
     ELSE IF found
     THEN Immediate(Result("switchToFrame", "", ActivePage, 0)) /\ activeFrame' = ActivePage
     ELSE Immediate(Result("switchToFrame", "frame not found", 0, 0)) /\ UNCHANGED activeFrame
  /\ UNCHANGED <<engineVars, sessVars, castVars, connVars, regVars, recVars, hdrVars, bg, modeVars>>
  /\ UNCHANGED <<casting, nFrames, pending, acks, handed>>

\* await page.$(options.selector) settled
SwitchToFrameQuery ==
  /\ CanResume("switchToFrame_query")
  /\ IF loc.page \notin openPages
     THEN Complete(Result("switchToFrame", "target closed", 0, 0))
     ELSE IF ~loc.exists
     THEN Complete(Result("switchToFrame", "frame not found", 0, 0))
     ELSE pc' = "switchToFrame_content" /\ UNCHANGED <<loc, pre, ret, inv>>
  /\ UNCHANGED <<engineVars, sessVars, castVars, connVars, regVars, recVars, hdrVars, bg, modeVars>>
  /\ UNCHANGED auxVars

\* await frameElement.contentFrame() settled; this.activeFrame = frame
SwitchToFrameDone ==
  /\ CanResume("switchToFrame_content")
  /\ IF loc.page \in openPages
     THEN activeFrame' = loc.page /\ Complete(Result("switchToFrame", "", loc.page, 0))
     ELSE UNCHANGED activeFrame /\ Complete(Result("switchToFrame", "target closed", 0, 0))
  /\ UNCHANGED <<engineVars, sessVars, castVars, connVars, regVars, recVars, hdrVars, bg, modeVars>>
  /\ UNCHANGED <<casting, nFrames, pending, acks, handed>>

SwitchToMainFrame ==
  /\ CanCall
  /\ activeFrame' = 0
  /\ Immediate(Result("switchToMainFrame", "", 0, 0))
  /\ UNCHANGED <<engineVars, sessVars, castVars, connVars, regVars, recVars, hdrVars, bg, modeVars>>
  /\ UNCHANGED <<casting, nFrames, pending, acks, handed>>

\* snapshots, refs and frames while tabs are opened and switched and the browser
\* is closed and launched again
NextView ==
  \/ LaunchCall(NoOptions) \/ LaunchConnect(TRUE)
  \/ LaunchBrowser(TRUE) \/ LaunchContext(TRUE) \/ LaunchPage
  \/ NewTabCall \/ NewTabNewPage \/ NewTabDone
  \/ \E index \in Indices : SwitchToCall(index)
  \/ SwitchToDone
  \/ CallerInvalidate
  \/ GetSnapshotCall \/ GetSnapshotDone
  \/ \E known \in BOOLEAN : GetLocatorFromRef(known)
  \/ (\E how \in {"selector", "name"}, found \in BOOLEAN : SwitchToFrameCall(how, found))
  \/ SwitchToFrameQuery \/ SwitchToFrameDone
  \/ SwitchToMainFrame
  \/ CloseCall \/ CloseStopRecording \/ CloseStopScreencast
  \/ (\E ok \in BOOLEAN : CloseIssue(ok)) \/ CloseAwaited \/ CloseReset
  \/ Return
  \/ PageOpened \/ PageClosed

SpecView == Init /\ [][NextView]_vars

\* recording with its failures (context, page, navigation) and close
NextRecFail ==
  \/ LaunchCall(NoOptions) \/ LaunchConnect(TRUE)
  \/ LaunchBrowser(TRUE) \/ LaunchContext(TRUE) \/ LaunchPage
  \/ (\E hasUrl \in BOOLEAN : StartRecordingCall(FALSE, TRUE, hasUrl))
  \/ StartRecordingState \/ StartRecordingContext \/ StartRecordingPage
  \/ StartRecordingContextRejected \/ StartRecordingPageRejected
  \/ StartRecordingInvalidated \/ StartRecordingGoto
  \/ StopRecordingCall
  \/ (\E ok \in BOOLEAN : StopRecordingClosed(ok))
  \/ (\E saved \in BOOLEAN : StopRecordingSaved(saved))
  \/ StopRecordingReset \/ StopRecordingDone
  \/ CloseCall \/ CloseStopRecording \/ CloseStopScreencast \/ CloseResume
  \/ (\E ok \in BOOLEAN : CloseIssue(ok)) \/ CloseAwaited \/ CloseReset
  \/ CallerInvalidate
  \/ Return
  \/ (\E p \in 1..MaxPages : ExternalClose(p)) \/ PageOpened \/ PageClosed

SpecRecFail == Init /\ [][NextRecFail]_vars

\* C32: every run of the frame handler sends screencastFrameAck with the frame's
\* sessionId before it hands the frame to the callback, and a frame that was handed
\* to the callback was acknowledged exactly once.
C32_FramesAcknowledgedOnce ==
  /\ \A x \in pending : acks[x.f] >= 1
  /\ \A i \in 1..Len(handed) : acks[handed[i].f] = 1
  /\ \A f \in 1..MaxFrames : f > nFrames => acks[f] = 0

C32_Witness ==
  /\ Len(handed) = 2 /\ handed[1].f = 1 /\ handed[2].f = 2
  /\ acks[1] = 1 /\ acks[2] = 1 /\ pending = {}

\* C37: a frame is handed only to the callback of the startScreencast call whose
\* screencast produced it, and only while that screencast has not been stopped or
\* invalidated.
C37_FramesReachOwnCallback ==
  \A i \in 1..Len(handed) : handed[i].live /\ handed[i].to = handed[i].cb

\* C39: a locator built by getLocatorFromRef is built on the page whose snapshot
\* produced the ref.
C39_RefResolvesOnItsPage ==
  (pc = "done" /\ ret.op = "getLocatorFromRef" /\ ret.a # 0) => ret.a = ret.b

\* C40: between operations getFrame() returns a frame of the active page.
C40_FrameOfActivePage ==
  pc \in {"idle", "done"} => getFrame = ActivePage

\* C33: a step that closes a tab other than the active one (the close handler
\* run for such a page, or closeTab's own bookkeeping for it) leaves the same page
\* active.
C33_HandlerKeepsActive ==
  (/\ events # <<>> /\ Head(events).type = "close" /\ events' = Tail(events)
   /\ Head(events).page # ActivePage)
    => ActivePage' = ActivePage

C33_CloseTabKeepsActive ==
  (pc = "closeTab_close" /\ pc' = "done" /\ At(pre.pages, loc.index) # ActivePage)
    => ActivePage' = ActivePage

C33_OtherTabCloseKeepsActive ==
  [][C33_HandlerKeepsActive /\ C33_CloseTabKeepsActive]_vars

\* C34: when newTab() or newWindow() returns, the index it returns denotes the
\* page it created and that page is the active page.
C34_CreatedPageActive ==
  (pc = "done" /\ ret.op \in {"newTab", "newWindow"} /\ ret.err = "") =>
    /\ At(pages, ret.a) = loc.page
    /\ ActivePage = loc.page

\* C35: between operations recordingContext and recordingPage are both set or
\* both unset, so isRecording() is true exactly when stopRecording() has a
\* recording to stop; and isRecording() is false when close() has returned.
C35_RecordingAllOrNothing ==
  /\ (pc \in {"idle", "done"} /\ callers = <<>>) =>
       ((recordingContext = 0) <=> (recordingPage = 0))
  /\ (pc = "done" /\ ret.op = "close") => recordingContext = 0

\* C38: when clearScopedHeaders() has returned no tracked page has a
\* scoped-header rule attached, and when clearScopedHeaders(origin) has returned
\* for an origin with a rule no tracked page has that origin's rule attached.
C38_ClearedRulesDetached ==
  /\ Returned("clearAllScopedHeaders") =>
       \A r \in pageRoutes : \A i \in 1..Len(pages) : r.p # pages[i]
  /\ (/\ Returned("clearScopedHeaders")
      /\ RouteHandlerIn(pre.routes[1], UrlPattern(loc.origin)) # NoHandler) =>
       \A r \in pageRoutes :
         r.pat = UrlPattern(loc.origin) => \A i \in 1..Len(pages) : r.p # pages[i]

====
